---- MODULE Spec2Model ----
(***************************************************************************)
(* RobustExifParser (src/src/app/api/extract-exif/route.ts): the JPEG      *)
(* marker scan, the TIFF header, the recursive IFD walk and the tag value  *)
(* decoder, as a state machine over one byte buffer.                       *)
(*                                                                         *)
(* Numbers.  A JavaScript number is modelled exactly as a reduced fraction *)
(* [n, d]; an offset handed to a reader is [q, f]: its integer part and    *)
(* whether a fractional part is present (DataView and subarray truncate    *)
(* the index, checkBounds compares the untruncated number).  TLC's         *)
(* integers end at 2^31-1, so a uint32 at or above Huge is read as Huge;   *)
(* every buffer the model draws is far shorter than Huge, so such a value  *)
(* is out of bounds in every comparison, as in the program.                *)
(***************************************************************************)
EXTENDS Integers, Sequences, FiniteSets, TLC

VARIABLES
    buffer,        \* this.buffer: the bytes handed to the constructor
    pc,            \* where parse() is: "start","scan","header","ifd","catch","done"
    currentOffset, \* parse(): the marker scan's cursor
    foundExif,     \* parse(): whether the scan matched an Exif APP1 segment
    tiffStart,     \* this.tiffStart
    littleEndian,  \* this.littleEndian
    tags,          \* the tag map parse() builds and returns
    keys,          \* the keys of tags in the order of their creation
    stack,         \* the call stack of parseIFD activations, innermost last
    propagated,    \* whether an exception left parse()
    req,           \* byte indices the last step asked the buffer/DataView for
    storedBy,      \* history: tag name -> ifdName of the activation that stored it
    lastEntry,     \* history: the directory entry the last step decoded
    visits,        \* history: the directory offsets parseIFD was entered with
    fixture,       \* the logical directories the buffer was built from
    op,            \* the library function called last: "none", "categorize", ...
    callName,      \* its tagName argument
    callData,      \* its rawData / tags argument
    result,        \* what it returned
    prev,          \* history: what the call before it returned
    puzzleState,   \* ImagePuzzle: the puzzleState state, Null or a PuzzleState
    gridSize,      \* ImagePuzzle: the gridSize state
    gameStarted    \* ImagePuzzle: the gameStarted state

\* The state of a call of exif-categories.ts or of the handler's GPS step.
\* The state of the ImagePuzzle component (src/unnamed/part_007).
puzzleVars == <<puzzleState, gridSize, gameStarted>>

libVars == <<op, callName, callData, result, prev, puzzleVars>>

vars == <<buffer, pc, currentOffset, foundExif, tiffStart, littleEndian, tags, keys,
          stack, propagated, req, storedBy, lastEntry, visits, fixture, libVars>>

\* ---------------------------------------------------------------- bounds

\* Stand-in for the engine's call-stack limit: one more activation raises
\* RangeError ("Maximum call stack size exceeded").
MaxStack == 10
\* Directory entries per drawn directory.
MaxEntries == 2
\* Largest uint32 the model tells apart (2^30).
Huge == 64 * 256 * 256 * 256

\* ---------------------------------------------------------------- values

Null == [kind |-> "null"]

\* The ImagePuzzle component as it is mounted (part_007 lines 32-35).
NoPuzzle ==
    /\ puzzleState = Null
    /\ gridSize = 3
    /\ gameStarted = FALSE

RECURSIVE Gcd(_, _)
Gcd(a, b) == IF b = 0 THEN a ELSE Gcd(b, a % b)

Abs(x) == IF x < 0 THEN -x ELSE x

\* The JavaScript number n / d (d # 0), as a reduced fraction.
Num(n, d) ==
    LET g == Gcd(Abs(n), Abs(d))
        s == IF d < 0 THEN -1 ELSE 1
    IN  [kind |-> "num", n |-> s * (n \div g), d |-> Abs(d) \div g]

IntNum(n) == [kind |-> "num", n |-> n, d |-> 1]
Str(s) == [kind |-> "str", s |-> s]
Arr(a) == [kind |-> "arr", a |-> a]

\* An offset: integer part and "has a fractional part".
Off(q) == [q |-> q, f |-> FALSE]
OffAdd(off, k) == [q |-> off.q + k, f |-> off.f]

\* floor(n / d) for d > 0
FloorDiv(n, d) == IF n >= 0 THEN n \div d ELSE -((-n + d - 1) \div d)

\* this.tiffStart + value, for a decoded number value
OffPlusNum(base, v) ==
    [q |-> base + FloorDiv(v.n, v.d), f |-> v.d # 1]

\* What a reader hands back: ok = FALSE is null; req are the byte indices it
\* asked for; exc is a RangeError raised by DataView.
NoRead == [ok |-> FALSE, v |-> 0, req |-> {}, exc |-> FALSE]

\* ---------------------------------------------------------------- DataView

\* DataView.getUint8/16/32, getInt32: the index is truncated; a range that
\* leaves the view raises RangeError.
ViewRange(off, width) == off.q .. (off.q + width - 1)

\* The width bytes at off, most significant first.
ViewBytes(off, width, le) ==
    [i \in 1..width |-> buffer[off.q + (IF le THEN width + 1 - i ELSE i)]]

ViewInside(off, width) == off.q >= 0 /\ off.q + width <= Len(buffer)

U16Of(b) == b[1] * 256 + b[2]

U32Of(b) ==
    IF b[1] >= 64 THEN Huge
    ELSE ((b[1] * 256 + b[2]) * 256 + b[3]) * 256 + b[4]

S32Of(b) ==
    (((IF b[1] >= 128 THEN b[1] - 256 ELSE b[1]) * 256 + b[2]) * 256 + b[3]) * 256 + b[4]

Outside(off, width) == [ok |-> FALSE, v |-> 0, req |-> ViewRange(off, width), exc |-> TRUE]

getUint8(off) ==
    IF ViewInside(off, 1)
    THEN [ok |-> TRUE, v |-> buffer[off.q + 1], req |-> ViewRange(off, 1), exc |-> FALSE]
    ELSE Outside(off, 1)

getUint16(off, le) ==
    IF ViewInside(off, 2)
    THEN [ok |-> TRUE, v |-> U16Of(ViewBytes(off, 2, le)), req |-> ViewRange(off, 2),
          exc |-> FALSE]
    ELSE Outside(off, 2)

getUint32(off, le) ==
    IF ViewInside(off, 4)
    THEN [ok |-> TRUE, v |-> U32Of(ViewBytes(off, 4, le)), req |-> ViewRange(off, 4),
          exc |-> FALSE]
    ELSE Outside(off, 4)

getInt32(off, le) ==
    IF ViewInside(off, 4)
    THEN [ok |-> TRUE, v |-> S32Of(ViewBytes(off, 4, le)), req |-> ViewRange(off, 4),
          exc |-> FALSE]
    ELSE Outside(off, 4)

\* ---------------------------------------------------------------- safe readers

\* checkBounds with the upper limit one byte too far.
checkBoundsOffByOne(off, length) ==
    /\ off.q >= 0
    /\ off.q <= Len(buffer) + 1
    /\ length <= Len(buffer) + 1
    /\ off.q + length + (IF off.f THEN 1 ELSE 0) <= Len(buffer) + 1

\* offset >= 0 && (offset + length) <= this.buffer.length, on the untruncated
\* offset: q + f + length <= len.  length is never negative; the two middle
\* conjuncts follow from the last one and keep the sum inside TLC's integers.
checkBounds(off, length) ==
    /\ off.q >= 0
    /\ off.q <= Len(buffer)
    /\ length <= Len(buffer)
    /\ off.q + length + (IF off.f THEN 1 ELSE 0) <= Len(buffer)

safeReadUint8(off) ==
    IF ~checkBounds(off, 1) THEN NoRead ELSE getUint8(off)

safeReadUint16(off, le) ==
    IF ~checkBounds(off, 2) THEN NoRead ELSE getUint16(off, le)

safeReadUint32(off, le) ==
    IF ~checkBounds(off, 4) THEN NoRead ELSE getUint32(off, le)

\* The loop of safeReadString: bytes are appended until the first 0 byte,
\* which ends the string and is not part of it.
RECURSIVE StringLoop(_, _, _, _)
StringBody(off, length, i, acc, byte) ==
    IF ~byte.ok THEN [ok |-> FALSE, v |-> acc.v, req |-> acc.req \cup byte.req,
                      exc |-> acc.exc \/ byte.exc]
    ELSE IF byte.v = 0 THEN [ok |-> TRUE, v |-> acc.v, req |-> acc.req \cup byte.req,
                             exc |-> acc.exc \/ byte.exc]
    ELSE StringLoop(off, length, i + 1,
                    [ok |-> TRUE, v |-> Append(acc.v, byte.v), req |-> acc.req \cup byte.req,
                     exc |-> acc.exc \/ byte.exc])

StringLoop(off, length, i, acc) ==
    IF i >= length THEN acc
    ELSE StringBody(off, length, i, acc, safeReadUint8(OffAdd(off, i)))

safeReadString(off, length) ==
    IF ~checkBounds(off, length) THEN [ok |-> FALSE, v |-> <<>>, req |-> {}, exc |-> FALSE]
    ELSE StringLoop(off, length, 0, [ok |-> TRUE, v |-> <<>>, req |-> {}, exc |-> FALSE])

\* A rational reader's result: ok = FALSE is null, else val is the quotient.
Quotient(numerator, denominator) ==
    IF ~numerator.ok \/ ~denominator.ok \/ denominator.v = 0
    THEN [ok |-> FALSE, val |-> Null, req |-> numerator.req \cup denominator.req,
          exc |-> numerator.exc \/ denominator.exc]
    ELSE [ok |-> TRUE, val |-> Num(numerator.v, denominator.v),
          req |-> numerator.req \cup denominator.req,
          exc |-> numerator.exc \/ denominator.exc]

readRational(off) ==
    Quotient(safeReadUint32(off, littleEndian),
             safeReadUint32(OffAdd(off, 4), littleEndian))

readSignedRational(off) ==
    IF ~checkBounds(off, 8) THEN [ok |-> FALSE, val |-> Null, req |-> {}, exc |-> FALSE]
    ELSE Quotient(getInt32(off, littleEndian), getInt32(OffAdd(off, 4), littleEndian))

\* ---------------------------------------------------------------- tag values

\* sizes[type] || 0
getTypeSize(type) ==
    IF type \in 0..12
    THEN <<0, 1, 1, 2, 4, 8, 1, 1, 2, 4, 8, 4, 8>>[type + 1]
    ELSE 0

\* A number | null read, as a value.
AsValue(r) == [ok |-> r.ok, val |-> IntNum(r.v), req |-> r.req, exc |-> r.exc]

\* One element of a BYTE, SHORT, LONG, RATIONAL or SRATIONAL value.
ReadElem(type, off) ==
    CASE type = 1 -> AsValue(safeReadUint8(off))
      [] type = 3 -> AsValue(safeReadUint16(off, littleEndian))
      [] type = 4 -> AsValue(safeReadUint32(off, littleEndian))
      [] type = 5 -> readRational(off)
      [] type = 10 -> readSignedRational(off)

\* for (i = 0; i < count; i++) { value = read(offset + i * size);
\*                               if (value === null) break; result.push(value) }
RECURSIVE ArrayLoop(_, _, _, _, _)
ArrayBody(type, off, count, i, acc, value) ==
    IF ~value.ok
    THEN [a |-> acc.a, req |-> acc.req \cup value.req, exc |-> acc.exc \/ value.exc]
    ELSE ArrayLoop(type, off, count, i + 1,
                   [a |-> Append(acc.a, value.val), req |-> acc.req \cup value.req,
                    exc |-> acc.exc \/ value.exc])

ArrayLoop(type, off, count, i, acc) ==
    IF i >= count THEN acc
    ELSE ArrayBody(type, off, count, i, acc,
                   ReadElem(type, OffAdd(off, i * getTypeSize(type))))

\* return value  /  return result.length > 0 ? result : null
ScalarResult(r) == [val |-> IF r.ok THEN r.val ELSE Null, req |-> r.req, exc |-> r.exc]
ArrayResult(r) == [val |-> IF Len(r.a) > 0 THEN Arr(r.a) ELSE Null, req |-> r.req, exc |-> r.exc]
StringResult(r) == [val |-> IF r.ok THEN Str(r.v) ELSE Null, req |-> r.req, exc |-> r.exc]

\* The count === 1 / else branches shared by types 1, 3, 4, 5 and 10.
ScalarOrArray(type, count, off) ==
    IF count = 1
    THEN ScalarResult(ReadElem(type, off))
    ELSE ArrayResult(ArrayLoop(type, off, count, 0, [a |-> <<>>, req |-> {}, exc |-> FALSE]))

\* Array.from(this.buffer.subarray(offset, offset + count)): subarray clamps
\* its range to the buffer.
Subarray(off, count) ==
    [val |-> Arr([i \in 1..(IF off.q + count <= Len(buffer) THEN count
                             ELSE Len(buffer) - off.q) |-> IntNum(buffer[off.q + i])]),
     req |-> off.q .. (off.q + count - 1), exc |-> FALSE]

NullResult == [val |-> Null, req |-> {}, exc |-> FALSE]

readValueByType(type, count, off) ==
    IF count = 0 THEN NullResult
    ELSE CASE type \in {1, 3, 4, 5, 10} -> ScalarOrArray(type, count, off)
           [] type = 2 -> StringResult(safeReadString(off, count))
           [] type = 7 ->
                IF ~checkBounds(off, count) THEN NullResult ELSE Subarray(off, count)
           [] type = 9 ->
                IF ~checkBounds(off, 4) THEN NullResult
                ELSE ScalarResult(AsValue(getInt32(off, littleEndian)))
           [] OTHER -> NullResult

\* typeSize * count, for count up to Huge
TotalSize(typeSize, count) ==
    IF count >= Huge \div 8 THEN Huge ELSE typeSize * count

\* dataOffset and the bounds test of the out-of-line branch, then the read.
ReadPlaced(type, count, totalSize, inline, dataOffset) ==
    IF ~inline /\ ~checkBounds(dataOffset, totalSize) THEN NullResult
    ELSE readValueByType(type, count, dataOffset)

\* The placement test written as totalSize < 4.
readTagValueStrict(type, count, valueOffset, valueFieldOffset) ==
    IF getTypeSize(type) = 0 THEN NullResult
    ELSE IF TotalSize(getTypeSize(type), count) < 4
    THEN ReadPlaced(type, count, TotalSize(getTypeSize(type), count), TRUE, valueFieldOffset)
    ELSE ReadPlaced(type, count, TotalSize(getTypeSize(type), count), FALSE,
                    Off(tiffStart + valueOffset))

readTagValue(type, count, valueOffset, valueFieldOffset) ==
    IF getTypeSize(type) = 0 THEN NullResult
    ELSE IF TotalSize(getTypeSize(type), count) <= 4
    THEN ReadPlaced(type, count, TotalSize(getTypeSize(type), count), TRUE, valueFieldOffset)
    ELSE ReadPlaced(type, count, TotalSize(getTypeSize(type), count), FALSE,
                    Off(tiffStart + valueOffset))

\* The one table of getTagInfo: tag ID -> name.
TagNames ==
    (271 :> "Make") @@ (272 :> "Model") @@ (274 :> "Orientation") @@
    (282 :> "XResolution") @@ (283 :> "YResolution") @@ (296 :> "ResolutionUnit") @@
    (305 :> "Software") @@ (306 :> "DateTime") @@ (315 :> "Artist") @@
    (33432 :> "Copyright") @@ (34665 :> "ExifOffset") @@ (34853 :> "GPSOffset") @@
    (33434 :> "ExposureTime") @@ (33437 :> "FNumber") @@ (34855 :> "ISO") @@
    (36864 :> "ExifVersion") @@ (36867 :> "DateTimeOriginal") @@
    (36868 :> "DateTimeDigitized") @@ (37377 :> "ShutterSpeedValue") @@
    (37378 :> "ApertureValue") @@ (37380 :> "ExposureBiasValue") @@
    (37381 :> "MaxApertureValue") @@ (37383 :> "MeteringMode") @@
    (37384 :> "LightSource") @@ (37385 :> "Flash") @@ (37386 :> "FocalLength") @@
    (37510 :> "UserComment") @@ (40960 :> "FlashpixVersion") @@
    (40961 :> "ColorSpace") @@ (40962 :> "ExifImageWidth") @@
    (40963 :> "ExifImageHeight") @@ (41986 :> "ExposureMode") @@
    (41987 :> "WhiteBalance") @@ (41989 :> "FocalLengthIn35mmFormat") @@
    (42032 :> "CameraOwnerName") @@ (42033 :> "BodySerialNumber") @@
    (42034 :> "LensSpecification") @@ (42035 :> "LensMake") @@
    (42036 :> "LensModel") @@ (42037 :> "LensSerialNumber") @@
    (0 :> "GPSVersionID") @@ (1 :> "GPSLatitudeRef") @@ (2 :> "GPSLatitude") @@
    (3 :> "GPSLongitudeRef") @@ (4 :> "GPSLongitude") @@ (5 :> "GPSAltitudeRef") @@
    (6 :> "GPSAltitude") @@ (7 :> "GPSTimeStamp") @@ (8 :> "GPSSatellites") @@
    (9 :> "GPSStatus") @@ (10 :> "GPSMeasureMode") @@ (11 :> "GPSDOP") @@
    (12 :> "GPSSpeedRef") @@ (13 :> "GPSSpeed") @@ (14 :> "GPSTrackRef") @@
    (15 :> "GPSTrack") @@ (16 :> "GPSImgDirectionRef") @@ (17 :> "GPSImgDirection") @@
    (18 :> "GPSMapDatum") @@ (19 :> "GPSDestLatitudeRef") @@ (20 :> "GPSDestLatitude") @@
    (21 :> "GPSDestLongitudeRef") @@ (22 :> "GPSDestLongitude") @@
    (29 :> "GPSDateStamp") @@ (30 :> "GPSDifferential")

\* A table lookup that names every ID.
getTagInfoAny(tag) ==
    [known |-> TRUE,
     name |-> IF tag \in DOMAIN TagNames THEN TagNames[tag] ELSE "Unknown"]

\* tags[tag] ? { name: tags[tag] } : null, as [known, name]
getTagInfo(tag) ==
    IF tag \in DOMAIN TagNames
    THEN [known |-> TRUE, name |-> TagNames[tag]]
    ELSE [known |-> FALSE, name |-> ""]

\* ---------------------------------------------------------------- parse()

\* 'Exif\0\0': the six characters the scan compares the header string with
ExifHeader == <<69, 120, 105, 102, 0, 0>>

NoEntry == [valid |-> FALSE]

\* A new activation of parseIFD(ifdOffset, tags, ifdName).
Frame(ifdOffset, ifdName) ==
    [ifdName |-> ifdName, ifdOffset |-> ifdOffset, stage |-> "enter",
     entryCount |-> 0, i |-> 0, currentOffset |-> ifdOffset]

\* A call of parseIFD from the activation stack stk: a new activation, or
\* RangeError when the engine's stack is exhausted.
CallParseIFD(stk, ifdOffset, ifdName) ==
    IF Len(stk) >= MaxStack
    THEN /\ pc' = "catch"
         /\ stack' = <<>>
         /\ visits' = visits
    ELSE /\ pc' = "ifd"
         /\ stack' = Append(stk, Frame(ifdOffset, ifdName))
         /\ visits' = Append(visits, ifdOffset)

\* A RangeError raised by DataView inside the try block.
Raise ==
    /\ pc' = "catch"
    /\ stack' = <<>>

\* Lines 65-76: the SOI test.
ParseStartWith(soi) ==
    /\ req' = soi.req
    /\ IF soi.exc THEN Raise /\ UNCHANGED <<currentOffset>>
       ELSE IF ~checkBounds(Off(0), 2) \/ ~soi.ok \/ soi.v # 65496
       THEN pc' = "done" /\ UNCHANGED <<currentOffset, stack>>
       ELSE pc' = "scan" /\ currentOffset' = 2 /\ UNCHANGED stack

ParseStart ==
    /\ pc = "start"
    /\ ParseStartWith(safeReadUint16(Off(0), FALSE))
    /\ UNCHANGED <<buffer, foundExif, tiffStart, littleEndian, tags, keys, propagated,
                   storedBy, lastEntry, visits, fixture, libVars>>

ScanResult(step, co, r, e) == [step |-> step, co |-> co, req |-> r, exc |-> e]

\* The loop body with a continue that leaves the cursor where it is when an
\* APP1 segment declares fewer than 14 bytes.
ScanBodyStuck(co, marker, segmentLength, exifHeader) ==
    IF ~(co < Len(buffer) - 1) THEN ScanResult("break", co, {}, FALSE)
    ELSE IF ~checkBounds(Off(co), 4) THEN ScanResult("break", co, {}, FALSE)
    ELSE IF ~marker.ok \/ marker.v \div 256 # 255
    THEN ScanResult("break", co, marker.req, marker.exc)
    ELSE IF marker.v = 65505
    THEN IF ~segmentLength.ok \/ segmentLength.v < 14
         THEN ScanResult("continue", co, marker.req \cup segmentLength.req,
                         marker.exc \/ segmentLength.exc)
         ELSE IF exifHeader.ok /\ exifHeader.v = ExifHeader
         THEN ScanResult("found", co,
                         marker.req \cup segmentLength.req \cup exifHeader.req,
                         marker.exc \/ segmentLength.exc \/ exifHeader.exc)
         ELSE ScanResult("continue", co + 2 + segmentLength.v,
                         marker.req \cup segmentLength.req \cup exifHeader.req,
                         marker.exc \/ segmentLength.exc \/ exifHeader.exc)
    ELSE IF marker.v = 65498
    THEN ScanResult("break", co, marker.req, marker.exc)
    ELSE IF ~segmentLength.ok
    THEN ScanResult("break", co, marker.req \cup segmentLength.req,
                    marker.exc \/ segmentLength.exc)
    ELSE ScanResult("continue", co + 2 + segmentLength.v,
                    marker.req \cup segmentLength.req, marker.exc \/ segmentLength.exc)

\* One test of the while condition and one pass through the loop body
\* (lines 78-110).  step: "break", "found" or "continue" with the new cursor.
ScanBodyWith(co, marker, segmentLength, exifHeader) ==
    IF ~(co < Len(buffer) - 1) THEN ScanResult("break", co, {}, FALSE)
    ELSE IF ~checkBounds(Off(co), 4) THEN ScanResult("break", co, {}, FALSE)
    ELSE IF ~marker.ok \/ marker.v \div 256 # 255
    THEN ScanResult("break", co, marker.req, marker.exc)
    ELSE IF marker.v = 65505
    THEN IF ~segmentLength.ok \/ segmentLength.v < 14
         THEN ScanResult("continue", co + 4, marker.req \cup segmentLength.req,
                         marker.exc \/ segmentLength.exc)
         ELSE IF exifHeader.ok /\ exifHeader.v = ExifHeader
         THEN ScanResult("found", co,
                         marker.req \cup segmentLength.req \cup exifHeader.req,
                         marker.exc \/ segmentLength.exc \/ exifHeader.exc)
         ELSE ScanResult("continue", co + 2 + segmentLength.v,
                         marker.req \cup segmentLength.req \cup exifHeader.req,
                         marker.exc \/ segmentLength.exc \/ exifHeader.exc)
    ELSE IF marker.v = 65498
    THEN ScanResult("break", co, marker.req, marker.exc)
    ELSE IF ~segmentLength.ok
    THEN ScanResult("break", co, marker.req \cup segmentLength.req,
                    marker.exc \/ segmentLength.exc)
    ELSE ScanResult("continue", co + 2 + segmentLength.v,
                    marker.req \cup segmentLength.req, marker.exc \/ segmentLength.exc)

ScanBody ==
    ScanBodyWith(currentOffset,
                 safeReadUint16(Off(currentOffset), FALSE),
                 safeReadUint16(Off(currentOffset + 2), FALSE),
                 safeReadString(Off(currentOffset + 4), 6))

\* The loop step, and on leaving the loop the foundExif test (lines 112-115).
ScanStepWith(b) ==
    /\ req' = b.req
    /\ IF b.exc
       THEN Raise /\ UNCHANGED <<currentOffset, foundExif, tiffStart>>
       ELSE /\ currentOffset' = b.co
            /\ foundExif' = (b.step = "found")
            /\ tiffStart' = IF b.step = "found" THEN b.co + 10 ELSE tiffStart
            /\ pc' = CASE b.step = "continue" -> "scan"
                       [] b.step = "found" -> "header"
                       [] OTHER -> "done"
            /\ UNCHANGED stack

ScanStep ==
    /\ pc = "scan"
    /\ ScanStepWith(ScanBody)
    /\ UNCHANGED <<buffer, littleEndian, tags, keys, propagated, storedBy, lastEntry,
                   visits, fixture, libVars>>

HeaderResult(go, le, ifd0Offset, r, e) ==
    [go |-> go, le |-> le, ifd0Offset |-> ifd0Offset, req |-> r, exc |-> e]

\* Lines 117-146 without the magic-number test.
HeaderNoMagicWith(byteOrder, le, magic, ifd0Offset) ==
    IF ~checkBounds(Off(tiffStart), 8) THEN HeaderResult(FALSE, littleEndian, 0, {}, FALSE)
    ELSE IF ~byteOrder.ok \/ byteOrder.v \notin {18761, 19789}
    THEN HeaderResult(FALSE, littleEndian, 0, byteOrder.req, byteOrder.exc)
    ELSE IF ~ifd0Offset.ok
    THEN HeaderResult(FALSE, le, 0, byteOrder.req \cup magic.req \cup ifd0Offset.req,
                      byteOrder.exc \/ magic.exc \/ ifd0Offset.exc)
    ELSE HeaderResult(TRUE, le, ifd0Offset.v,
                      byteOrder.req \cup magic.req \cup ifd0Offset.req,
                      byteOrder.exc \/ magic.exc \/ ifd0Offset.exc)

\* Lines 117-146: the TIFF header.  go: whether parseIFD is called; le: the
\* byte order, assigned before the magic number is tested.
HeaderWith(byteOrder, le, magic, ifd0Offset) ==
    IF ~checkBounds(Off(tiffStart), 8) THEN HeaderResult(FALSE, littleEndian, 0, {}, FALSE)
    ELSE IF ~byteOrder.ok \/ byteOrder.v \notin {18761, 19789}
    THEN HeaderResult(FALSE, littleEndian, 0, byteOrder.req, byteOrder.exc)
    ELSE IF ~magic.ok \/ magic.v # 42
    THEN HeaderResult(FALSE, le, 0, byteOrder.req \cup magic.req,
                      byteOrder.exc \/ magic.exc)
    ELSE IF ~ifd0Offset.ok
    THEN HeaderResult(FALSE, le, 0, byteOrder.req \cup magic.req \cup ifd0Offset.req,
                      byteOrder.exc \/ magic.exc \/ ifd0Offset.exc)
    ELSE HeaderResult(TRUE, le, ifd0Offset.v,
                      byteOrder.req \cup magic.req \cup ifd0Offset.req,
                      byteOrder.exc \/ magic.exc \/ ifd0Offset.exc)

Header ==
    HeaderWith(safeReadUint16(Off(tiffStart), FALSE),
               safeReadUint16(Off(tiffStart), FALSE).v = 18761,
               safeReadUint16(Off(tiffStart + 2),
                              safeReadUint16(Off(tiffStart), FALSE).v = 18761),
               safeReadUint32(Off(tiffStart + 4),
                              safeReadUint16(Off(tiffStart), FALSE).v = 18761))

\* Lines 117-149: the header, then parseIFD(this.tiffStart + ifd0Offset, tags, 'IFD0').
ParseHeaderWith(h) ==
    /\ req' = h.req
    /\ IF h.exc THEN Raise /\ UNCHANGED <<littleEndian, visits>>
       ELSE /\ littleEndian' = h.le
            /\ IF h.go
               THEN CallParseIFD(stack, Off(tiffStart + h.ifd0Offset), "IFD0")
               ELSE pc' = "done" /\ UNCHANGED <<stack, visits>>

ParseHeader ==
    /\ pc = "header"
    /\ ParseHeaderWith(Header)
    /\ UNCHANGED <<buffer, currentOffset, foundExif, tiffStart, tags, keys, propagated,
                   storedBy, lastEntry, fixture, libVars>>

\* The catch block that lets the error go on to the caller.
ParseCatchRethrow ==
    /\ pc = "catch"
    /\ pc' = "done"
    /\ propagated' = TRUE
    /\ req' = {}
    /\ UNCHANGED <<buffer, currentOffset, foundExif, tiffStart, littleEndian, tags, keys,
                   stack, storedBy, lastEntry, visits, fixture, libVars>>

\* Lines 151-155: catch (error) { console.error(...) }  return tags.
ParseCatch ==
    /\ pc = "catch"
    /\ pc' = "done"
    /\ propagated' = FALSE
    /\ req' = {}
    /\ UNCHANGED <<buffer, currentOffset, foundExif, tiffStart, littleEndian, tags, keys,
                   stack, storedBy, lastEntry, visits, fixture, libVars>>

\* ---------------------------------------------------------------- parseIFD

Top == stack[Len(stack)]
SetTop(f) == [stack EXCEPT ![Len(stack)] = f]

\* The entry of parseIFD that gives up unless all the declared entries are in
\* the buffer.
IFDEnterWholeOnly(entryCount) ==
    /\ req' = entryCount.req
    /\ IF entryCount.exc THEN Raise
       ELSE /\ pc' = "ifd"
            /\ IF ~checkBounds(Top.ifdOffset, 2) \/ ~entryCount.ok \/ entryCount.v > 100
                  \/ ~checkBounds(Top.ifdOffset, 2 + 12 * entryCount.v)
               THEN stack' = SetTop([Top EXCEPT !.stage = "ret"])
               ELSE stack' = SetTop([Top EXCEPT !.stage = "entries",
                                                !.entryCount = entryCount.v,
                                                !.i = 0,
                                                !.currentOffset = OffAdd(Top.ifdOffset, 2)])

\* The entry of parseIFD with the cap one lower.
IFDEnterBelow100(entryCount) ==
    /\ req' = entryCount.req
    /\ IF entryCount.exc THEN Raise
       ELSE /\ pc' = "ifd"
            /\ IF ~checkBounds(Top.ifdOffset, 2) \/ ~entryCount.ok \/ entryCount.v >= 100
               THEN stack' = SetTop([Top EXCEPT !.stage = "ret"])
               ELSE stack' = SetTop([Top EXCEPT !.stage = "entries",
                                                !.entryCount = entryCount.v,
                                                !.i = 0,
                                                !.currentOffset = OffAdd(Top.ifdOffset, 2)])

\* Lines 159-172: the offset test, the entry count and its sanity test.
IFDEnterWith(entryCount) ==
    /\ req' = entryCount.req
    /\ IF entryCount.exc THEN Raise
       ELSE /\ pc' = "ifd"
            /\ IF ~checkBounds(Top.ifdOffset, 2) \/ ~entryCount.ok \/ entryCount.v > 100
               THEN stack' = SetTop([Top EXCEPT !.stage = "ret"])
               ELSE stack' = SetTop([Top EXCEPT !.stage = "entries",
                                                !.entryCount = entryCount.v,
                                                !.i = 0,
                                                !.currentOffset = OffAdd(Top.ifdOffset, 2)])

IFDEnter ==
    /\ pc = "ifd"
    /\ Top.stage = "enter"
    /\ IFDEnterWith(safeReadUint16(Top.ifdOffset, littleEndian))
    /\ lastEntry' = NoEntry
    /\ UNCHANGED <<buffer, currentOffset, foundExif, tiffStart, littleEndian, tags, keys,
                   propagated, storedBy, visits, fixture, libVars>>

\* Lines 185-193: the null test on the four fields, the table lookup and the
\* value.
EntryWith(co, tag, type, count, valueOffset, tagInfo, value) ==
    [fields |-> tag.ok /\ type.ok /\ count.ok /\ valueOffset.ok,
     tag |-> tag.v, type |-> type.v, count |-> count.v,
     valueOffset |-> valueOffset.v, valueFieldOffset |-> OffAdd(co, 8),
     known |-> tag.ok /\ type.ok /\ count.ok /\ valueOffset.ok /\ tagInfo.known,
     name |-> tagInfo.name,
     val |-> IF tag.ok /\ type.ok /\ count.ok /\ valueOffset.ok /\ tagInfo.known
             THEN value.val ELSE Null,
     dataReq |-> IF tag.ok /\ type.ok /\ count.ok /\ valueOffset.ok /\ tagInfo.known
                 THEN value.req ELSE {},
     req |-> tag.req \cup type.req \cup count.req \cup valueOffset.req
             \cup (IF tag.ok /\ type.ok /\ count.ok /\ valueOffset.ok /\ tagInfo.known
                   THEN value.req ELSE {}),
     exc |-> tag.exc \/ type.exc \/ count.exc \/ valueOffset.exc
             \/ (tag.ok /\ type.ok /\ count.ok /\ valueOffset.ok /\ tagInfo.known /\ value.exc)]

EntryFields(co, tag, type, count, valueOffset) ==
    EntryWith(co, tag, type, count, valueOffset, getTagInfo(tag.v),
              readTagValue(type.v, count.v, valueOffset.v, OffAdd(co, 8)))

\* Lines 180-193 for the entry at co.
DecodeEntry(co) ==
    EntryFields(co,
                safeReadUint16(co, littleEndian),
                safeReadUint16(OffAdd(co, 2), littleEndian),
                safeReadUint32(OffAdd(co, 4), littleEndian),
                safeReadUint32(OffAdd(co, 8), littleEndian))

\* Lines 190-205 for the decoded entry e; after is this activation once the
\* entry is done (currentOffset += 12, i++).
IFDEntryWith(e, after) ==
    /\ req' = e.req
    /\ IF e.exc
       THEN Raise /\ lastEntry' = NoEntry /\ UNCHANGED <<tags, keys, storedBy, visits>>
       ELSE /\ lastEntry' = [valid |-> TRUE, ifdName |-> Top.ifdName,
                             ifdOffset |-> Top.ifdOffset, i |-> Top.i,
                             entryOffset |-> Top.currentOffset, tag |-> e.tag,
                             type |-> e.type, count |-> e.count,
                             valueOffset |-> e.valueOffset,
                             valueFieldOffset |-> e.valueFieldOffset,
                             known |-> e.known, name |-> e.name,
                             val |-> e.val, dataReq |-> e.dataReq]
            /\ IF e.known /\ e.val # Null
               THEN /\ tags' = (e.name :> e.val) @@ tags
                    /\ keys' = IF e.name \in DOMAIN tags THEN keys ELSE Append(keys, e.name)
                    /\ storedBy' = (e.name :> Top.ifdName) @@ storedBy
                    /\ IF e.tag = 34665 /\ e.val.kind = "num"
                       THEN CallParseIFD(SetTop(after), OffPlusNum(tiffStart, e.val), "ExifIFD")
                       ELSE IF e.tag = 34853 /\ e.val.kind = "num"
                       THEN CallParseIFD(SetTop(after), OffPlusNum(tiffStart, e.val), "GPSIFD")
                       ELSE stack' = SetTop(after) /\ UNCHANGED <<pc, visits>>
               ELSE /\ stack' = SetTop(after)
                    /\ UNCHANGED <<pc, tags, keys, storedBy, visits>>

\* One test of i < entryCount and one pass through the loop body (lines 174-206).
IFDEntry ==
    /\ pc = "ifd"
    /\ Top.stage = "entries"
    /\ IF Top.i >= Top.entryCount \/ ~checkBounds(Top.currentOffset, 12)
       THEN /\ stack' = SetTop([Top EXCEPT !.stage = "next"])
            /\ req' = {}
            /\ lastEntry' = NoEntry
            /\ UNCHANGED <<pc, tags, keys, storedBy, visits>>
       ELSE IFDEntryWith(DecodeEntry(Top.currentOffset),
                         [Top EXCEPT !.currentOffset = OffAdd(Top.currentOffset, 12),
                                     !.i = Top.i + 1])
    /\ UNCHANGED <<buffer, currentOffset, foundExif, tiffStart, littleEndian,
                   propagated, fixture, libVars>>

\* Lines 208-214: the next-IFD pointer.
IFDNextWith(nextIFDOffset, done) ==
    IF ~checkBounds(Top.currentOffset, 4)
    THEN stack' = done /\ req' = {} /\ UNCHANGED <<pc, visits>>
    ELSE /\ req' = nextIFDOffset.req
         /\ IF nextIFDOffset.exc THEN Raise /\ UNCHANGED visits
            ELSE IF nextIFDOffset.ok /\ nextIFDOffset.v # 0
            THEN CallParseIFD(done, Off(tiffStart + nextIFDOffset.v), "IFD1")
            ELSE stack' = done /\ UNCHANGED <<pc, visits>>

IFDNext ==
    /\ pc = "ifd"
    /\ Top.stage = "next"
    /\ IFDNextWith(safeReadUint32(Top.currentOffset, littleEndian),
                   SetTop([Top EXCEPT !.stage = "ret"]))
    /\ lastEntry' = NoEntry
    /\ UNCHANGED <<buffer, currentOffset, foundExif, tiffStart, littleEndian, tags, keys,
                   propagated, storedBy, fixture, libVars>>

\* parseIFD returns: to the activation that called it, or to parse(), which
\* returns tags (line 155).
IFDReturn ==
    /\ pc = "ifd"
    /\ Top.stage = "ret"
    /\ stack' = SubSeq(stack, 1, Len(stack) - 1)
    /\ pc' = IF Len(stack) = 1 THEN "done" ELSE "ifd"
    /\ req' = {}
    /\ lastEntry' = NoEntry
    /\ UNCHANGED <<buffer, currentOffset, foundExif, tiffStart, littleEndian, tags, keys,
                   propagated, storedBy, visits, fixture, libVars>>

\* ---------------------------------------------------------------- drawn buffers
\* The buffers the parser is run on are serialised from logical directories
\* (a synthetic JPEG/TIFF writer), then cut short or given a damaged header.

Reverse(b) == [i \in 1..Len(b) |-> b[Len(b) + 1 - i]]

U16Bytes(v, le) ==
    IF le THEN <<v % 256, v \div 256>> ELSE <<v \div 256, v % 256>>

U32Bytes(v, le) ==
    LET be == <<v \div 16777216, (v \div 65536) % 256, (v \div 256) % 256, v % 256>>
    IN  IF le THEN Reverse(be) ELSE be

S32Bytes(v, le) ==
    IF v >= 0 THEN U32Bytes(v, le)
    ELSE LET w == (v + 2147483647) + 1
             be == <<w \div 16777216 + 128, (w \div 65536) % 256, (w \div 256) % 256, w % 256>>
         IN  IF le THEN Reverse(be) ELSE be

RECURSIVE Flatten(_)
Flatten(ss) == IF Len(ss) = 0 THEN <<>> ELSE Head(ss) \o Flatten(Tail(ss))

\* The bytes of one element of a value of the given type.
ElemBytes(type, x, le) ==
    CASE type = 3 -> U16Bytes(x, le)
      [] type = 4 -> U32Bytes(x, le)
      [] type = 9 -> S32Bytes(x, le)
      [] type = 5 -> U32Bytes(x[1], le) \o U32Bytes(x[2], le)
      [] type = 10 -> S32Bytes(x[1], le) \o S32Bytes(x[2], le)
      [] OTHER -> <<x>>

DataBytes(e, le) == Flatten([k \in 1..Len(e.vals) |-> ElemBytes(e.type, e.vals[k], le)])

Pad4(b) == b \o [k \in 1..(4 - Len(b)) |-> 0]

OutOfLine(e) == e.place = "auto" /\ Len(DataBytes(e, TRUE)) > 4

RECURSIVE EncodeEntries(_, _, _, _, _, _, _)
EncodeEntries(entries, k, dataOff, le, offA, offB, acc) ==
    IF k > Len(entries) THEN acc
    ELSE LET e == entries[k]
             data == DataBytes(e, le)
             field == CASE e.place = "dirA" -> U32Bytes(offA, le)
                        [] e.place = "dirB" -> U32Bytes(offB, le)
                        [] e.place = "far" -> U32Bytes(60000, le)
                        [] OutOfLine(e) -> U32Bytes(dataOff, le)
                        [] OTHER -> Pad4(data)
             bytes == U16Bytes(e.tag, le) \o U16Bytes(e.type, le)
                      \o U32Bytes(e.count, le) \o field
         IN  EncodeEntries(entries, k + 1,
                           IF OutOfLine(e) THEN dataOff + Len(data) ELSE dataOff,
                           le, offA, offB,
                           [e |-> acc.e \o bytes,
                            d |-> IF OutOfLine(e) THEN acc.d \o data ELSE acc.d])

EncodeDir(entries, base, le, next, offA, offB) ==
    LET enc == EncodeEntries(entries, 1, base + 2 + 12 * Len(entries) + 4, le,
                             offA, offB, [e |-> <<>>, d |-> <<>>])
    IN  U16Bytes(Len(entries), le) \o enc.e \o U32Bytes(next, le) \o enc.d

DirSize(entries) == Len(EncodeDir(entries, 0, TRUE, 0, 0, 0))

\* Directory A follows the header (byte order 2, magic 2, offset 4); B follows A.
OffA == 2 + 2 + 4
OffB(fx) == OffA + DirSize(fx.a)

NextPtr(fx, which) ==
    CASE which = "A" -> OffA
      [] which = "B" -> OffB(fx)
      [] OTHER -> 0

\* The entry count a directory declares: the number of its entries, or 100
\* or 101 whatever follows ("A100", "A101", "B100", "B101").
DeclaredCount(fx, which, entries) ==
    CASE fx.hdr = which \o "100" -> 100
      [] fx.hdr = which \o "101" -> 101
      [] OTHER -> Len(entries)

\* dir with n in its count field.
Declaring(n, le, dir) == U16Bytes(n, le) \o SubSeq(dir, 3, Len(dir))

TiffBytes(fx) ==
    LET bom == CASE fx.hdr = "bom" -> <<65, 66>>
                 [] fx.le -> <<73, 73>>
                 [] OTHER -> <<77, 77>>
        magic == U16Bytes(IF fx.hdr = "magic" THEN 43 ELSE 42, fx.le)
        ifd0 == U32Bytes(IF fx.hdr = "past" THEN 60000 ELSE OffA, fx.le)
    IN  bom \o magic \o ifd0
        \o Declaring(DeclaredCount(fx, "A", fx.a), fx.le,
                     EncodeDir(fx.a, OffA, fx.le, NextPtr(fx, fx.nextA), OffA, OffB(fx)))
        \o (IF Len(fx.b) = 0 THEN <<>>
            ELSE Declaring(DeclaredCount(fx, "B", fx.b), fx.le,
                           EncodeDir(fx.b, OffB(fx), fx.le, NextPtr(fx, fx.nextB), OffA, OffB(fx))))

\* SOI, then the segments before APP1, then the Exif APP1 segment.
JpegBytes(fx) ==
    LET tiff == TiffBytes(fx)
    IN  <<255, 216>> \o Flatten(fx.segs)
        \o (IF fx.app1 THEN <<255, 225>> \o U16Bytes(8 + Len(tiff), FALSE) \o ExifHeader \o tiff
            ELSE <<>>)

BufferOf(fx) == LET all == JpegBytes(fx) IN SubSeq(all, 1, Len(all) - fx.cut)

\* The offset of the APP1 marker in JpegBytes(fx).
App1Offset(fx) == 2 + Len(Flatten(fx.segs))

E(tag, type, count, vals, place) ==
    [tag |-> tag, type |-> type, count |-> count, vals |-> vals, place |-> place]

\* The directory entries the drawn directories are made of.
Catalogue ==
    << E(271, 2, 6, <<67, 97, 110, 111, 110, 0>>, "auto"),     \* Make "Canon"
       E(274, 3, 1, <<6>>, "auto"),                            \* Orientation
       E(1, 2, 2, <<78, 0>>, "auto"),                          \* ID 0x0001, "N"
       E(282, 5, 1, << <<72, 1>> >>, "auto"),                  \* XResolution 72/1
       E(2989, 3, 1, <<7>>, "auto"),                           \* an ID in no table
       E(34855, 3, 2, <<100, 200>>, "auto"),                   \* ISO, 4 bytes inline
       E(37386, 3, 3, <<1, 2, 3>>, "auto"),                    \* 6 bytes out of line
       E(40962, 4, 1, <<4000>>, "auto"),                       \* ExifImageWidth
       E(34665, 4, 1, <<0>>, "dirB"),                          \* ExifOffset -> B
       E(272, 6, 1, <<5>>, "auto"),                            \* SBYTE: unsupported
       E(37380, 10, 1, << <<-1, 3>> >>, "auto"),               \* ExposureBiasValue
       E(33437, 5, 1, << <<28, 0>> >>, "auto"),                \* FNumber 28/0
       E(36864, 7, 4, <<48, 50, 51, 48>>, "auto"),             \* ExifVersion
       E(37510, 7, 1, <<65>>, "auto"),                         \* UserComment, 1 byte
       E(34853, 4, 1, <<0>>, "dirB"),                          \* GPSOffset -> B
       E(305, 2, 0, <<>>, "auto"),                             \* Software, count 0
       E(306, 2, 20, <<>>, "far"),                             \* DateTime, bad offset
       E(315, 1, 5, <<1, 2, 3, 4, 5>>, "auto"),                \* Artist, 5 bytes
       E(37383, 9, 1, <<-2>>, "auto"),                         \* SLONG -2 inline
       E(42034, 5, 2, << <<24, 1>>, <<70, 4>> >>, "auto"),     \* LensSpecification
       E(34665, 4, 1, <<0>>, "dirA"),                          \* ExifOffset -> A
       E(40961, 9, 2, <<-1, 5>>, "auto"),                      \* SLONG x 2
       E(37385, 1, 1, <<9>>, "auto"),                          \* Flash, BYTE
       E(33434, 10, 2, << <<1, -2>>, <<3, 4>> >>, "auto"),     \* SRATIONAL x 2
       E(41989, 4, 2, <<70000, 3>>, "auto"),                   \* LONG x 2
       E(296, 13, 1, <<2>>, "auto"),                           \* type 13: no size
       E(34665, 5, 1, << <<17, 2>> >>, "auto") >>              \* ExifOffset 17/2

\* n consecutive catalogue entries starting at s (wrapping round).
Window(s, n) ==
    [k \in 1..n |-> Catalogue[((s + k - 2) % Len(Catalogue)) + 1]]

Windows == {<<>>} \cup {Window(s, n) : s \in 1..Len(Catalogue), n \in 1..MaxEntries}

\* The second directory: a GPS directory.
DirB == << E(1, 2, 2, <<83, 0>>, "auto"), E(274, 3, 1, <<3>>, "auto") >>

\* Segments that may precede APP1.
Segments ==
    << <<255, 224, 0, 4, 74, 70>>,          \* APP0, length 4
       <<255, 225, 0, 8, 104, 116, 116, 112, 58, 47>>,   \* APP1 shorter than 14
       <<255, 226, 0, 0>>,                  \* length 0
       <<255, 218>>,                        \* SOS
       <<18, 52>>,                          \* not a marker
       <<255, 219, 0, 3, 9>>,               \* length 3
       <<255, 225, 0, 14, 88, 77, 80, 0, 1, 2, 3, 4, 5, 6, 7, 8>>,   \* APP1, not Exif
       <<255, 254, 0, 2>> >>                \* COM, empty

SegWindows ==
    {<<>>} \cup {[k \in 1..n |-> Segments[((s + k - 2) % Len(Segments)) + 1]] :
                    s \in 1..Len(Segments), n \in 1..MaxEntries}

Fx(entry, segs, app1, le, a, b, nextA, nextB, hdr, cut) ==
    [entry |-> entry, segs |-> segs, app1 |-> app1, le |-> le, a |-> a, b |-> b,
     nextA |-> nextA, nextB |-> nextB, hdr |-> hdr, cut |-> cut]

FullLen(fx) == Len(JpegBytes([fx EXCEPT !.cut = 0]))

\* Whole buffers: every window, byte order and directory chaining.
WholeFixtures ==
    {Fx("tiff", <<>>, TRUE, le, a, b, nextA, nextB, "ok", 0) :
        le \in BOOLEAN, a \in Windows, b \in {DirB}, nextA \in {"none", "A", "B"},
        nextB \in {"none", "A", "B"}}
    \cup
    {Fx("tiff", <<>>, TRUE, le, a, <<>>, nextA, "none", "ok", 0) :
        le \in BOOLEAN, a \in Windows, nextA \in {"none", "A"}}

\* Damaged TIFF headers.
HeaderFixtures ==
    {Fx("tiff", <<>>, TRUE, le, a, <<>>, "none", "none", hdr, 0) :
        le \in BOOLEAN, a \in Windows, hdr \in {"bom", "magic", "past"}}

\* Buffers cut short anywhere after the Exif signature.
CutFixtures ==
    UNION {{Fx("tiff", <<>>, TRUE, le, a, <<>>, "none", "none", "ok", cut) :
               cut \in 1..(FullLen(Fx("tiff", <<>>, TRUE, le, a, <<>>, "none", "none", "ok", 0)) - 12)} :
           le \in BOOLEAN, a \in Windows}

\* parse() from its first line: segment sequences with and without an Exif
\* APP1 segment, whole and cut short.
ScanFixtures ==
    UNION {{Fx("parse", segs, app1, FALSE, Window(2, 1), <<>>, "none", "none", "ok", cut) :
               cut \in 0..FullLen(Fx("parse", segs, app1, FALSE, Window(2, 1), <<>>, "none", "none", "ok", 0))} :
           segs \in SegWindows, app1 \in BOOLEAN}
    \cup
    {Fx("parse", <<>>, TRUE, le, a, <<>>, "none", "none", "ok", 0) :
        le \in BOOLEAN, a \in Windows}

\* Directories that declare 100 or 101 entries: the first one, or the second
\* one reached through a pointer tag or the next-IFD pointer of the first.
CountFixtures ==
    {Fx("tiff", <<>>, TRUE, le, a, DirB, nextA, "none", hdr, 0) :
        le \in BOOLEAN, a \in {Window(1, 2), Window(9, 1), Window(15, 2)},
        nextA \in {"none", "B"}, hdr \in {"A100", "A101", "B100", "B101"}}

\* An APP1 segment that declares length 2 and a segment that declares length
\* 0, one after the other, before the Exif segment or at the end of the file.
ShortSegmentFixtures ==
    {Fx("parse", << <<255, 225, 0, 2>>, <<255, 226, 0, 0>> >>, app1, FALSE, Window(2, 1),
        <<>>, "none", "none", "ok", 0) : app1 \in BOOLEAN}

Fixtures ==
    WholeFixtures \cup HeaderFixtures \cup CutFixtures \cup ScanFixtures \cup CountFixtures
        \cup ShortSegmentFixtures

\* ---------------------------------------------------------------- specification

\* "parse": new RobustExifParser(buffer).parse() from its first line.
\* "tiff": parse() at line 117 with the scan's result for an Exif APP1 segment
\* at App1Offset (foundExif, tiffStart = marker offset + 10, lines 96-97).
InitOf(fx) ==
    /\ fixture = fx
    /\ buffer = BufferOf(fx)
    /\ pc = IF fx.entry = "parse" THEN "start" ELSE "header"
    /\ currentOffset = IF fx.entry = "parse" THEN 0 ELSE App1Offset(fx)
    /\ foundExif = (fx.entry = "tiff")
    /\ tiffStart = IF fx.entry = "parse" THEN 0 ELSE App1Offset(fx) + 10
    /\ littleEndian = FALSE
    /\ tags = <<>>
    /\ keys = <<>>
    /\ stack = <<>>
    /\ propagated = FALSE
    /\ req = {}
    /\ storedBy = <<>>
    /\ lastEntry = NoEntry
    /\ visits = <<>>
    /\ op = "none"
    /\ callName = <<>>
    /\ callData = <<>>
    /\ result = Null
    /\ prev = Null
    /\ NoPuzzle

Init == \E fx \in Fixtures : InitOf(fx)

Next ==
    \/ ParseStart
    \/ ScanStep
    \/ ParseHeader
    \/ IFDEnter
    \/ IFDEntry
    \/ IFDNext
    \/ IFDReturn
    \/ ParseCatch

Spec == Init /\ [][Next]_vars

\* ---------------------------------------------------------------- properties

\* The buffer as the properties read it: the byte at index k, counted from 0.
ByteAt(k) == buffer[k + 1]
Word16(k, le) ==
    IF le THEN ByteAt(k) + 256 * ByteAt(k + 1) ELSE 256 * ByteAt(k) + ByteAt(k + 1)
Word32(k, le) ==
    IF le THEN Word16(k, le) + 65536 * Word16(k + 2, le)
    ELSE 65536 * Word16(k, le) + Word16(k + 2, le)

HasSOI == Len(buffer) >= 2 /\ ByteAt(0) = 255 /\ ByteAt(1) = 216
HeaderPresent == Len(buffer) >= tiffStart + 8
MarkII == ByteAt(tiffStart) = 73 /\ ByteAt(tiffStart + 1) = 73
MarkMM == ByteAt(tiffStart) = 77 /\ ByteAt(tiffStart + 1) = 77
Magic42 == Word16(tiffStart + 2, MarkII) = 42
FirstIFDInside == tiffStart + Word32(tiffStart + 4, MarkII) < Len(buffer)

\* C1: every byte index the parser asks the buffer for, in the marker scan, the
\* TIFF header, parseIFD, readTagValue and readValueByType, lies in
\* 0 .. buffer.length - 1.
C1_ReadsInsideBuffer == \A i \in req : 0 <= i /\ i < Len(buffer)

\* A value was decoded whose last byte is the last byte of a buffer cut short.
C1_Witness ==
    /\ lastEntry.valid
    /\ fixture.cut > 0
    /\ lastEntry.dataReq # {}
    /\ (Len(buffer) - 1) \in lastEntry.dataReq

\* C2: on cyclic IFD pointers parseIFD visits every directory offset at most
\* once, or never nests deeper than 8 activations.
C2_VisitsBounded ==
    \/ \A i, j \in DOMAIN visits : i # j => visits[i] # visits[j]
    \/ Len(stack) <= 8

\* Segments the scan steps over: a marker other than APP1 and SOS whose length
\* field is the number of bytes after the marker.
Skippable(seg) ==
    /\ Len(seg) >= 4
    /\ seg[1] = 255
    /\ seg[2] \notin {218, 225}
    /\ Len(seg) = 2 + seg[3] * 256 + seg[4]

\* C3: for a buffer that starts with SOI and holds, before any SOS marker, an
\* APP1 segment whose length field is followed by 'Exif\0\0', parse() finds
\* EXIF and sets tiffStart to the APP1 marker offset + 10.
C3_ScanFindsExif ==
    (/\ pc = "done"
     /\ fixture.entry = "parse"
     /\ fixture.app1
     /\ fixture.cut = 0
     /\ \A k \in DOMAIN fixture.segs : Skippable(fixture.segs[k]))
    => (foundExif /\ tiffStart = App1Offset(fixture) + 10)

\* C4: parse() returns and no exception reaches its caller, whatever the buffer.
C4_NeverPropagates == pc = "done" => ~propagated

\* parse() has returned after the directories of a cyclic buffer exhausted the
\* stack.
C4_Witness ==
    /\ pc = "done"
    /\ ~propagated
    /\ Len(visits) >= MaxStack
    /\ fixture.nextA = "A"

\* The structural failures: no SOI, no Exif APP1 segment found, a byte-order
\* mark other than II and MM, a magic number other than 42, a first-IFD offset
\* past the end of the buffer.
StructuralFailure ==
    \/ ~HasSOI
    \/ ~foundExif
    \/ /\ HeaderPresent
       /\ \/ ~(MarkII \/ MarkMM)
          \/ ~Magic42
          \/ ~FirstIFDInside

\* C5: after a structural failure parse() returns a map with no keys and
\* parseIFD has stored nothing.
C5_StructuralFailureEmpty ==
    (pc = "done" /\ StructuralFailure) => (tags = <<>> /\ storedBy = <<>>)

\* parse() has returned for a buffer whose header has a valid byte-order mark
\* and a magic number other than 42, in front of a directory with entries.
C5_Witness ==
    /\ pc = "done"
    /\ foundExif
    /\ HeaderPresent
    /\ MarkII \/ MarkMM
    /\ ~Magic42
    /\ Len(fixture.a) > 0
    /\ tags = <<>>

\* ---- logical values of the drawn directories

\* Two values are the same value: the same kind, then the same contents.
ValEq(x, y) == x.kind = y.kind /\ x = y

\* The characters of s before its first 0.
RECURSIVE UpToNul(_)
UpToNul(s) ==
    IF Len(s) = 0 \/ Head(s) = 0 THEN <<>> ELSE <<Head(s)>> \o UpToNul(Tail(s))

LogicalElem(type, x) == IF type \in {5, 10} THEN Num(x[1], x[2]) ELSE IntNum(x)

\* The value a directory entry was built from: a string for ASCII, a bare
\* scalar for count 1, else the sequence of its count scalars.
Logical(e) ==
    IF e.type = 2 THEN Str(UpToNul(e.vals))
    ELSE IF e.count = 1 THEN LogicalElem(e.type, e.vals[1])
    ELSE Arr([k \in 1..e.count |-> LogicalElem(e.type, e.vals[k])])

\* The last decoded entry is entry i of the drawn directory A or B.
FromDirA == lastEntry.ifdOffset = Off(tiffStart + OffA) /\ lastEntry.i < Len(fixture.a)
FromDirB ==
    /\ Len(fixture.b) > 0
    /\ lastEntry.ifdOffset = Off(tiffStart + OffB(fixture))
    /\ lastEntry.i < Len(fixture.b)
DrawnEntry ==
    IF FromDirA THEN fixture.a[lastEntry.i + 1] ELSE fixture.b[lastEntry.i + 1]

LastTotalSize == TotalSize(getTypeSize(lastEntry.type), lastEntry.count)

\* An entry with count elements of a supported type, its data where the
\* writer put it, no zero denominator, and not a sub-IFD pointer.
WellFormedEntry(e) ==
    /\ e.tag \in DOMAIN TagNames
    /\ e.tag \notin {34665, 34853}
    /\ e.type \in {1, 2, 3, 4, 5, 7, 9, 10}
    /\ e.place = "auto"
    /\ e.count >= 1
    /\ e.count = Len(e.vals)
    /\ e.type \in {5, 10} => \A k \in DOMAIN e.vals : e.vals[k][2] # 0

\* ---- C6

\* The number of complete 12-byte entries of directory A left in the buffer.
CompleteEntries == (Len(buffer) - (tiffStart + OffA + 2)) \div 12

InlineValid(e) == WellFormedEntry(e) /\ getTypeSize(e.type) * e.count <= 4

\* The buffer ends inside directory A after k >= 1 complete entries, all of
\* them recognised tags with valid inline values.
CutMidIFD ==
    /\ fixture.entry = "tiff"
    /\ fixture.hdr = "ok"
    /\ fixture.cut > 0
    /\ Len(fixture.b) = 0
    /\ fixture.nextA = "none"
    /\ Len(buffer) >= tiffStart + OffA + 2 + 12
    /\ CompleteEntries < Len(fixture.a)
    /\ \A j \in 1..CompleteEntries : InlineValid(fixture.a[j])

GPSNames == {TagNames[t] : t \in (0..30) \cap DOMAIN TagNames}

\* C7: a GPS-named key is stored only by the directory reached through the GPS
\* pointer tag 0x8825, never by IFD0, a chained IFD or the EXIF sub-IFD.
C7_GPSNamesOnlyFromGPSIFD ==
    \A n \in DOMAIN storedBy : n \in GPSNames => storedBy[n] = "GPSIFD"

\* ---- C8

\* C8: a value of totalSize <= 4 is read from the entry's 4-byte value field, a
\* larger one from tiffStart + valueOffset, and a BYTE, ASCII, SHORT or LONG
\* value decodes to the value it was built from on either path and in either
\* byte order.
C8_Placement ==
    (lastEntry.valid /\ lastEntry.known /\ getTypeSize(lastEntry.type) # 0) =>
        /\ LastTotalSize <= 4 =>
               lastEntry.dataReq \subseteq ViewRange(lastEntry.valueFieldOffset, 4)
        /\ LastTotalSize > 4 =>
               \A i \in lastEntry.dataReq :
                   /\ i >= tiffStart + lastEntry.valueOffset
                   /\ i - (tiffStart + lastEntry.valueOffset) < LastTotalSize
        /\ (/\ fixture.cut = 0
            /\ FromDirA \/ FromDirB
            /\ WellFormedEntry(DrawnEntry)
            /\ DrawnEntry.type \in {1, 2, 3, 4})
           => ValEq(lastEntry.val, Logical(DrawnEntry))

\* Two little-endian SHORTs, four bytes in all, were decoded from the value
\* field.
C8_Witness ==
    /\ lastEntry.valid
    /\ littleEndian
    /\ lastEntry.type = 3
    /\ lastEntry.count = 2
    /\ lastEntry.dataReq = ViewRange(lastEntry.valueFieldOffset, 4)
    /\ ValEq(lastEntry.val, Arr(<<IntNum(100), IntNum(200)>>))

\* ---- C9

\* The data of the last decoded entry is inside the buffer.
LastInBounds ==
    \/ LastTotalSize <= 4
    \/ checkBounds(Off(tiffStart + lastEntry.valueOffset), LastTotalSize)

\* C9: for types 1, 3, 4, 5, 7, 9 and 10 and data in bounds, the decoded value
\* is a bare scalar when count = 1 and a sequence of exactly count scalars when
\* count > 1.
C9_ScalarOrSequence ==
    (/\ lastEntry.valid
     /\ lastEntry.known
     /\ lastEntry.type \in {1, 3, 4, 5, 7, 9, 10}
     /\ lastEntry.count >= 1
     /\ LastInBounds)
    => IF lastEntry.count = 1
       THEN lastEntry.val.kind = "num"
       ELSE lastEntry.val.kind = "arr" /\ Len(lastEntry.val.a) = lastEntry.count

\* ---- C10

\* A whole buffer with one directory of well-formed entries with pairwise
\* distinct recognised tags.
RoundTripFixture ==
    /\ fixture.entry = "tiff"
    /\ fixture.hdr = "ok"
    /\ fixture.cut = 0
    /\ Len(fixture.b) = 0
    /\ fixture.nextA = "none"
    /\ Len(fixture.a) >= 1
    /\ \A j \in DOMAIN fixture.a : WellFormedEntry(fixture.a[j])
    /\ \A j, k \in DOMAIN fixture.a : j # k => fixture.a[j].tag # fixture.a[k].tag

\* C10: a well-formed IFD of N entries with distinct recognised tags decodes to
\* exactly those N name -> value pairs.
C10_RoundTrip ==
    (pc = "done" /\ RoundTripFixture) =>
        /\ DOMAIN tags = {TagNames[fixture.a[j].tag] : j \in DOMAIN fixture.a}
        /\ \A j \in DOMAIN fixture.a :
               ValEq(tags[TagNames[fixture.a[j].tag]], Logical(fixture.a[j]))

\* ================================================================
\* src/src/lib/exif-categories.ts: the tag classifier and the list assembler.
\* Tag names are strings of ASCII characters.

UpperToLower ==
    ("A" :> "a") @@ ("B" :> "b") @@ ("C" :> "c") @@ ("D" :> "d") @@ ("E" :> "e") @@
    ("F" :> "f") @@ ("G" :> "g") @@ ("H" :> "h") @@ ("I" :> "i") @@ ("J" :> "j") @@
    ("K" :> "k") @@ ("L" :> "l") @@ ("M" :> "m") @@ ("N" :> "n") @@ ("O" :> "o") @@
    ("P" :> "p") @@ ("Q" :> "q") @@ ("R" :> "r") @@ ("S" :> "s") @@ ("T" :> "t") @@
    ("U" :> "u") @@ ("V" :> "v") @@ ("W" :> "w") @@ ("X" :> "x") @@ ("Y" :> "y") @@
    ("Z" :> "z")

\* The i-th character of s (from 1), as a string of length 1.
CharAt(s, i) == SubSeq(s, i, i)

LowerChar(c) == IF c \in DOMAIN UpperToLower THEN UpperToLower[c] ELSE c

\* String.prototype.toLowerCase
RECURSIVE toLowerCase(_)
toLowerCase(s) ==
    IF Len(s) = 0 THEN "" ELSE LowerChar(Head(s)) \o toLowerCase(Tail(s))

\* String.prototype.includes
includes(s, sub) ==
    /\ Len(sub) <= Len(s)
    /\ \E i \in 0..(Len(s) - Len(sub)) : SubSeq(s, i + 1, i + Len(sub)) = sub

\* String.prototype.startsWith
startsWith(s, prefix) ==
    Len(prefix) <= Len(s) /\ SubSeq(s, 1, Len(prefix)) = prefix

Digits == {"0", "1", "2", "3", "4", "5", "6", "7", "8", "9"}

\* /^\d+$/.test(s)
IsDigits(s) == Len(s) >= 1 /\ \A i \in 1..Len(s) : CharAt(s, i) \in Digits

\* EXIF_PRIVACY_CATEGORIES.high
HighTags ==
    << "GPSLatitude", "GPSLongitude", "latitude", "longitude", "GPSLatitudeRef",
       "GPSLongitudeRef", "GPSAltitude", "GPSAltitudeRef", "GPSTimeStamp",
       "GPSDateStamp", "GPSProcessingMethod", "GPSAreaInformation", "GPSDestLatitude",
       "GPSDestLongitude", "GPSImgDirection", "GPSMapDatum", "GPSSatellites",
       "GPSStatus", "GPSMeasureMode", "GPSDOP", "GPSSpeed", "GPSTrack",
       "DateTimeOriginal", "DateTimeDigitized", "DateTime", "CreateDate", "ModifyDate",
       "FileModifyDate", "FileAccessDate", "FileCreateDate", "Artist", "Copyright",
       "OwnerName", "CameraOwnerName", "Creator", "Publisher", "Rights", "Author",
       "By-line", "CopyrightNotice", "Credit", "Source", "SerialNumber",
       "LensSerialNumber", "InternalSerialNumber", "BodySerialNumber",
       "CameraSerialNumber", "ImageUniqueID", "UserComment", "ImageDescription",
       "DocumentName", "Title", "Description", "Subject", "Keywords", "Comment",
       "Instructions", "XPComment", "XPSubject", "XPTitle", "XPKeywords", "Prompt",
       "GeneratedBy", "Model", "Seed", "Steps", "CFGScale", "Sampler",
       "NegativePrompt", "Parameters", "AIModel", "GenerationSettings", "Software",
       "ProcessingSoftware", "HostComputer", "OperatingSystem", "SoftwareVersion" >>

\* EXIF_PRIVACY_CATEGORIES.medium
MediumTags ==
    << "Make", "Model", "LensMake", "LensModel", "LensInfo", "LensType",
       "LensSpecification", "CameraModelName", "LensModelName", "FNumber",
       "ExposureTime", "ISO", "ISOSpeedRatings", "SensitivityType", "FocalLength",
       "FocalLengthIn35mmFormat", "MaxApertureValue", "ApertureValue",
       "ShutterSpeedValue", "ExposureMode", "ExposureProgram", "ExposureBiasValue",
       "MeteringMode", "LightSource", "Flash", "FlashMode", "WhiteBalance",
       "DigitalZoomRatio", "SceneCaptureType", "GainControl", "Contrast", "Saturation",
       "Sharpness", "SubjectDistanceRange", "Orientation", "XResolution",
       "YResolution", "ResolutionUnit", "ColorSpace", "ExifVersion", "FlashpixVersion",
       "ComponentsConfiguration", "CompressedBitsPerPixel", "FirmwareVersion",
       "LensType", "FileName", "ImageNumber", "FileNumber", "ShutterCount" >>

\* EXIF_PRIVACY_CATEGORIES.safe
SafeTags ==
    << "ImageWidth", "ImageHeight", "ImageSize", "Megapixels", "ExifImageWidth",
       "ExifImageHeight", "BitsPerSample", "Compression", "PhotometricInterpretation",
       "SamplesPerPixel", "PlanarConfiguration", "YCbCrSubSampling",
       "YCbCrPositioning", "ReferenceBlackWhite", "ColorComponents", "EncodingProcess",
       "FileType", "FileTypeExtension", "MIMEType", "ExifByteOrder", "FileSize",
       "JFIFVersion", "XMPToolkit", "CurrentIPTCDigest", "CodedCharacterSet",
       "ApplicationRecordVersion", "ThumbnailImage", "ThumbnailLength",
       "ThumbnailOffset", "PreviewImage", "ColorProfile", "ICCProfile", "ColorMode",
       "ColorTemperature" >>

EXIF_PRIVACY_CATEGORIES == [high |-> HighTags, medium |-> MediumTags, safe |-> SafeTags]

\* EXIF_TAG_NAMES: its own properties
EXIF_TAG_NAMES ==
    ("0" :> "GPSVersionID") @@ ("1" :> "GPSLatitudeRef") @@ ("2" :> "GPSLatitude") @@
    ("3" :> "GPSLongitudeRef") @@ ("4" :> "GPSLongitude") @@ ("5" :> "GPSAltitudeRef") @@
    ("6" :> "GPSAltitude") @@ ("7" :> "GPSTimeStamp") @@ ("8" :> "GPSSatellites") @@
    ("9" :> "GPSStatus") @@ ("10" :> "GPSMeasureMode") @@ ("11" :> "GPSDOP") @@
    ("12" :> "GPSSpeedRef") @@ ("13" :> "GPSSpeed") @@ ("14" :> "GPSTrackRef") @@
    ("15" :> "GPSTrack") @@ ("16" :> "GPSImgDirectionRef") @@ ("17" :> "GPSImgDirection") @@
    ("18" :> "GPSMapDatum") @@ ("19" :> "GPSDestLatitudeRef") @@
    ("20" :> "GPSDestLatitude") @@ ("21" :> "GPSDestLongitudeRef") @@
    ("22" :> "GPSDestLongitude") @@ ("29" :> "GPSDateStamp") @@ ("271" :> "Make") @@
    ("272" :> "Model") @@ ("274" :> "Orientation") @@ ("282" :> "XResolution") @@
    ("283" :> "YResolution") @@ ("296" :> "ResolutionUnit") @@ ("305" :> "Software") @@
    ("306" :> "DateTime") @@ ("315" :> "Artist") @@ ("33432" :> "Copyright") @@
    ("33434" :> "ExposureTime") @@ ("33437" :> "FNumber") @@ ("34855" :> "ISO") @@
    ("34850" :> "ExposureProgram") @@ ("36864" :> "ExifVersion") @@
    ("36867" :> "DateTimeOriginal") @@ ("36868" :> "DateTimeDigitized") @@
    ("37121" :> "ComponentsConfiguration") @@ ("37377" :> "ShutterSpeedValue") @@
    ("37378" :> "ApertureValue") @@ ("37380" :> "ExposureBiasValue") @@
    ("37381" :> "MaxApertureValue") @@ ("37383" :> "MeteringMode") @@
    ("37384" :> "LightSource") @@ ("37385" :> "Flash") @@ ("37386" :> "FocalLength") @@
    ("37510" :> "UserComment") @@ ("40960" :> "FlashpixVersion") @@
    ("40961" :> "ColorSpace") @@ ("40962" :> "ExifImageWidth") @@
    ("40963" :> "ExifImageHeight") @@ ("41728" :> "FileSource") @@
    ("41729" :> "SceneType") @@ ("41985" :> "CustomRendered") @@
    ("41986" :> "ExposureMode") @@ ("41987" :> "WhiteBalance") @@
    ("41988" :> "DigitalZoomRatio") @@ ("41989" :> "FocalLengthIn35mmFormat") @@
    ("41990" :> "SceneCaptureType") @@ ("41991" :> "GainControl") @@
    ("41992" :> "Contrast") @@ ("41993" :> "Saturation") @@ ("41994" :> "Sharpness") @@
    ("41996" :> "SubjectDistanceRange") @@ ("42032" :> "CameraOwnerName") @@
    ("42033" :> "BodySerialNumber") @@ ("42034" :> "LensSpecification") @@
    ("42035" :> "LensMake") @@ ("42036" :> "LensModel") @@ ("42037" :> "LensSerialNumber") @@
    ("531" :> "YCbCrPositioning") @@ ("latitude" :> "GPSLatitude") @@
    ("longitude" :> "GPSLongitude") @@ ("altitude" :> "GPSAltitude") @@
    ("FileName" :> "FileName") @@ ("FileSize" :> "FileSize") @@ ("FileType" :> "FileType") @@
    ("MIMEType" :> "MIMEType") @@ ("ImageWidth" :> "ImageWidth") @@
    ("ImageHeight" :> "ImageHeight")

\* The properties every object literal inherits from Object.prototype: a lookup
\* of one of these names on EXIF_TAG_NAMES finds a function or object, which
\* is truthy.
ObjectPrototype ==
    {"constructor", "toString", "toLocaleString", "valueOf", "hasOwnProperty",
     "isPrototypeOf", "propertyIsEnumerable", "__proto__", "__defineGetter__",
     "__defineSetter__", "__lookupGetter__", "__lookupSetter__"}

\* A value that is not a string: the inherited property of that name.
Inherited(name) == [kind |-> "fn", s |-> name]

\* tag.toLowerCase() of every entry of the three lists.
ListedNames ==
    {HighTags[k] : k \in DOMAIN HighTags} \cup {MediumTags[k] : k \in DOMAIN MediumTags}
        \cup {SafeTags[k] : k \in DOMAIN SafeTags}
LowerOf == [tag \in ListedNames |-> toLowerCase(tag)]

\* One of the three loops over a list of EXIF_PRIVACY_CATEGORIES.
ListMatches(list, tagName, lowerTag) ==
    \E k \in DOMAIN list :
        \/ lowerTag = LowerOf[list[k]]
        \/ includes(lowerTag, LowerOf[list[k]])
        \/ tagName = list[k]

\* Lines 190-213: the patterns that make a tag high.
HighPattern(lowerTag) ==
    \/ includes(lowerTag, "gps")
    \/ includes(lowerTag, "location")
    \/ includes(lowerTag, "coordinate")
    \/ includes(lowerTag, "latitude")
    \/ includes(lowerTag, "longitude")
    \/ includes(lowerTag, "date")
    \/ (includes(lowerTag, "time") /\ ~includes(lowerTag, "timezone"))
    \/ includes(lowerTag, "owner")
    \/ includes(lowerTag, "artist")
    \/ includes(lowerTag, "serial")
    \/ includes(lowerTag, "comment")
    \/ includes(lowerTag, "author")
    \/ includes(lowerTag, "copyright")

\* Lines 224-242: the patterns that make a tag medium.
MediumPattern(lowerTag) ==
    \/ includes(lowerTag, "camera")
    \/ includes(lowerTag, "lens")
    \/ includes(lowerTag, "make")
    \/ (includes(lowerTag, "model") /\ ~includes(lowerTag, "color"))
    \/ includes(lowerTag, "exposure")
    \/ includes(lowerTag, "iso")
    \/ includes(lowerTag, "focal")
    \/ includes(lowerTag, "aperture")
    \/ includes(lowerTag, "shutter")
    \/ includes(lowerTag, "flash")
    \/ includes(lowerTag, "white")
    \/ includes(lowerTag, "orientation")

\* A default of 'safe' for the tags nothing matches.
DefaultSafe == "safe"

\* Line 254: what a tag that nothing matches is given.
DefaultCategory == "medium"

\* The cascade with the medium list and patterns tried before the high
\* patterns.
CategorizeMediumEarly(tagName, lowerTag) ==
    IF ListMatches(EXIF_PRIVACY_CATEGORIES.high, tagName, lowerTag) THEN "high"
    ELSE IF ListMatches(EXIF_PRIVACY_CATEGORIES.medium, tagName, lowerTag) THEN "medium"
    ELSE IF MediumPattern(lowerTag) THEN "medium"
    ELSE IF HighPattern(lowerTag) THEN "high"
    ELSE IF ListMatches(EXIF_PRIVACY_CATEGORIES.safe, tagName, lowerTag) THEN "safe"
    ELSE DefaultCategory

Categorize(tagName, lowerTag) ==
    IF ListMatches(EXIF_PRIVACY_CATEGORIES.high, tagName, lowerTag) THEN "high"
    ELSE IF HighPattern(lowerTag) THEN "high"
    ELSE IF ListMatches(EXIF_PRIVACY_CATEGORIES.medium, tagName, lowerTag) THEN "medium"
    ELSE IF MediumPattern(lowerTag) THEN "medium"
    ELSE IF ListMatches(EXIF_PRIVACY_CATEGORIES.safe, tagName, lowerTag) THEN "safe"
    ELSE DefaultCategory

categorizeExifTag(tagName) == Categorize(tagName, toLowerCase(tagName))

\* /\d+/.test(s): the pattern without its anchors
HasDigit(s) == \E i \in 1..Len(s) : CharAt(s, i) \in Digits

\* normalizeTagName with the unanchored pattern.
normalizeTagNameUnanchored(tagName) ==
    IF tagName \in DOMAIN EXIF_TAG_NAMES THEN Str(EXIF_TAG_NAMES[tagName])
    ELSE IF tagName \in ObjectPrototype THEN Inherited(tagName)
    ELSE IF HasDigit(tagName) THEN Str("Unknown_Tag_" \o tagName)
    ELSE Str(tagName)

\* EXIF_TAG_NAMES[tagName] is looked up on the object and then on its
\* prototype; the result is a string, or what the prototype holds.
normalizeTagName(tagName) ==
    IF tagName \in DOMAIN EXIF_TAG_NAMES THEN Str(EXIF_TAG_NAMES[tagName])
    ELSE IF tagName \in ObjectPrototype THEN Inherited(tagName)
    ELSE IF IsDigits(tagName) THEN Str("Unknown_Tag_" \o tagName)
    ELSE Str(tagName)


\* ---------------------------------------------------------------- processExifData

\* JavaScript values the parser does not produce.
Undefined == [kind |-> "undefined"]
\* A Date; iso = "" is an invalid Date.
DateValue(iso) == [kind |-> "date", iso |-> iso]
\* A plain object, by its JSON text.
ObjectValue(json) == [kind |-> "object", json |-> json]

typeof(value) ==
    CASE value.kind = "undefined" -> "undefined"
      [] value.kind = "num" -> "number"
      [] value.kind = "str" -> "string"
      [] OTHER -> "object"

IsArray(value) == value.kind = "arr"
IsDate(value) == value.kind = "date"
IsEmptyString(value) == value.kind = "str" /\ Len(value.s) = 0

\* EXIF_TAG_DESCRIPTIONS: its own properties
EXIF_TAG_DESCRIPTIONS ==
    ("GPSLatitude" :> "Exact geographical latitude where the image was captured - MAJOR PRIVACY RISK") @@
    ("GPSLongitude" :> "Exact geographical longitude where the image was captured - MAJOR PRIVACY RISK") @@
    ("GPSAltitude" :> "Altitude above sea level where the image was captured") @@
    ("GPSLatitudeRef" :> "Direction reference (North/South) for latitude coordinates") @@
    ("GPSLongitudeRef" :> "Direction reference (East/West) for longitude coordinates") @@
    ("GPSTimeStamp" :> "Exact time when GPS coordinates were recorded") @@
    ("GPSDateStamp" :> "Date when GPS coordinates were recorded") @@
    ("GPSMapDatum" :> "Geodetic coordinate system used for GPS positioning") @@
    ("GPSSatellites" :> "GPS satellites used for position calculation") @@
    ("DateTimeOriginal" :> "Date and time when the image was originally captured - can reveal personal patterns") @@
    ("DateTimeDigitized" :> "Date and time when the image was digitized") @@
    ("DateTime" :> "Date and time when the image file was last modified") @@
    ("Artist" :> "Name of the image creator or photographer") @@
    ("Copyright" :> "Copyright information that may contain personal details") @@
    ("CameraOwnerName" :> "Name of the camera owner") @@
    ("BodySerialNumber" :> "Camera body serial number - can be used for device tracking") @@
    ("LensSerialNumber" :> "Lens serial number - can be used for device tracking") @@
    ("UserComment" :> "User-entered comment that may contain personal information") @@
    ("Make" :> "Camera manufacturer (e.g., Canon, Nikon, Apple)") @@
    ("Model" :> "Camera model - can indicate expensive equipment ownership") @@
    ("LensMake" :> "Lens manufacturer") @@
    ("LensModel" :> "Lens model and specifications") @@
    ("Software" :> "Software used to create or edit the image") @@
    ("FNumber" :> "Aperture f-stop value used (affects depth of field)") @@
    ("ExposureTime" :> "Shutter speed used for the exposure") @@
    ("ISO" :> "ISO sensitivity setting used") @@
    ("FocalLength" :> "Lens focal length used for the shot") @@
    ("Flash" :> "Flash mode and settings used") @@
    ("WhiteBalance" :> "White balance setting used") @@
    ("ExposureMode" :> "Exposure mode (manual, auto, etc.)") @@
    ("MeteringMode" :> "Light metering mode used") @@
    ("ImageWidth" :> "Image width in pixels") @@
    ("ImageHeight" :> "Image height in pixels") @@
    ("Orientation" :> "Image orientation (rotation)") @@
    ("XResolution" :> "Horizontal resolution") @@
    ("YResolution" :> "Vertical resolution") @@
    ("ColorSpace" :> "Color space used (sRGB, Adobe RGB, etc.)") @@
    ("FileSize" :> "File size in bytes") @@
    ("FileType" :> "Image file format (JPEG, PNG, etc.)") @@
    ("MIMEType" :> "MIME type of the image file") @@
    ("FileName" :> "Original filename of the image")

\* Lines 263-287 of getTagDescription: the descriptions made from patterns.
PatternDescription(tagName, lowerTag) ==
    IF includes(lowerTag, "gps") \/ includes(lowerTag, "latitude")
       \/ includes(lowerTag, "longitude")
    THEN "GPS location data - reveals exact geographical coordinates where image was taken"
    ELSE IF includes(lowerTag, "date") \/ includes(lowerTag, "time")
    THEN "Date/time information - can reveal personal patterns and routines"
    ELSE IF includes(lowerTag, "serial") \/ includes(lowerTag, "id")
    THEN "Device identifier - can be used for tracking across multiple images"
    ELSE IF includes(lowerTag, "make") \/ includes(lowerTag, "model")
    THEN "Equipment information - reveals camera/device specifications"
    ELSE IF includes(lowerTag, "software") \/ includes(lowerTag, "version")
    THEN "Software information - reveals applications used to create or edit image"
    ELSE "EXIF metadata: " \o tagName

getTagDescription(tagName, value) ==
    IF tagName \in DOMAIN EXIF_TAG_DESCRIPTIONS THEN Str(EXIF_TAG_DESCRIPTIONS[tagName])
    ELSE IF tagName \in ObjectPrototype THEN Inherited(tagName)
    ELSE Str(PatternDescription(tagName, toLowerCase(tagName)))

\* ---- objects: the entries of an object in the order of their first assignment

Entry(key, value) == [key |-> key, value |-> value]

\* obj[key] = value
Assign(obj, key, value) ==
    IF \E k \in DOMAIN obj : obj[k].key = key
    THEN [k \in DOMAIN obj |-> IF obj[k].key = key THEN Entry(key, value) ELSE obj[k]]
    ELSE Append(obj, Entry(key, value))

\* The object built by assigning the pairs in turn.
RECURSIVE FromPairs(_)
FromPairs(pairs) ==
    IF Len(pairs) = 0 THEN <<>>
    ELSE Assign(FromPairs(SubSeq(pairs, 1, Len(pairs) - 1)),
                pairs[Len(pairs)].key, pairs[Len(pairs)].value)

DigitValue ==
    ("0" :> 0) @@ ("1" :> 1) @@ ("2" :> 2) @@ ("3" :> 3) @@ ("4" :> 4) @@
    ("5" :> 5) @@ ("6" :> 6) @@ ("7" :> 7) @@ ("8" :> 8) @@ ("9" :> 9)

RECURSIVE ToNumber(_)
ToNumber(s) ==
    IF Len(s) = 0 THEN 0
    ELSE 10 * ToNumber(SubSeq(s, 1, Len(s) - 1)) + DigitValue[CharAt(s, Len(s))]

\* An integer index key: canonical decimal digits (up to nine of them here).
IsIndex(key) ==
    IsDigits(key) /\ (Len(key) = 1 \/ Head(key) # "0") /\ Len(key) <= 9

\* entry goes after the index keys that are not larger.
RECURSIVE InsertIndex(_, _)
InsertIndex(entry, sorted) ==
    IF Len(sorted) = 0 THEN <<entry>>
    ELSE IF ToNumber(entry.key) < ToNumber(Head(sorted).key) THEN <<entry>> \o sorted
    ELSE <<Head(sorted)>> \o InsertIndex(entry, Tail(sorted))

RECURSIVE SortIndex(_)
SortIndex(entries) ==
    IF Len(entries) = 0 THEN <<>>
    ELSE InsertIndex(entries[Len(entries)], SortIndex(SubSeq(entries, 1, Len(entries) - 1)))

IndexEntry(e) == IsIndex(e.key)
NamedEntry(e) == ~IsIndex(e.key)

\* Object.entries: the integer keys in ascending order, then the other keys
\* in the order of their creation.
ObjectEntries(obj) == SortIndex(SelectSeq(obj, IndexEntry)) \o SelectSeq(obj, NamedEntry)

\* ---- lines 308-317

\* The filter's arrow function: && binds tighter than ||, so the five tests
\* and the typeof test are one operand and an array or a Date is kept
\* whatever its key.
CleanFilter(e) ==
    \/ /\ e.value # Undefined
       /\ e.value # Null
       /\ ~IsEmptyString(e.value)
       /\ ~startsWith(e.key, "_")
       /\ ~startsWith(e.key, "$")
       /\ typeof(e.value) # "object"
    \/ IsArray(e.value)
    \/ IsDate(e.value)

cleanData(rawData) == SelectSeq(ObjectEntries(rawData), CleanFilter)

\* ---- lines 332-349

\* 10^6
Million == 1000 * 1000

\* Number(value.toFixed(6)): the nearest multiple of 10^-6, ties away from 0
\* (numerators up to 1000; larger ones are left as they are).
ToFixed6(value) ==
    IF Abs(value.n) > 1000 THEN value
    ELSE Num((IF value.n < 0 THEN -1 ELSE 1)
             * ((2 * Abs(value.n) * Million + value.d) \div (2 * value.d)), Million)

\* stringified.length > 100 ? stringified.substring(0, 100) + '...' : stringified
Shorten(stringified) ==
    IF Len(stringified) > 100 THEN SubSeq(stringified, 1, 100) \o "..." ELSE stringified

\* displayValue; ok = FALSE is the RangeError of toISOString on an invalid Date.
DisplayValue(value) ==
    IF typeof(value) = "object" /\ value # Null
    THEN IF IsArray(value) THEN [ok |-> TRUE, v |-> value]
         ELSE IF IsDate(value)
         THEN [ok |-> Len(value.iso) > 0, v |-> Str(value.iso)]
         ELSE [ok |-> TRUE, v |-> Str(Shorten(value.json))]
    ELSE IF typeof(value) = "number" /\ value.d # 1
    THEN [ok |-> TRUE, v |-> ToFixed6(value)]
    ELSE [ok |-> TRUE, v |-> value]

\* ---- lines 319-357

\* A record that takes its category from the kind of its value.
TagRecordByValue(normalizedName, value, displayValue) ==
    [tag |-> normalizedName, value |-> displayValue,
     description |-> getTagDescription(normalizedName, value),
     category |-> IF value.kind = "num" THEN "safe" ELSE categorizeExifTag(normalizedName)]

\* Lines 329-356: the record pushed for one entry.
TagRecord(normalizedName, value, displayValue) ==
    [tag |-> normalizedName, value |-> displayValue,
     description |-> getTagDescription(normalizedName, value),
     category |-> categorizeExifTag(normalizedName)]

Thrown == [ok |-> FALSE, list |-> <<>>]

\* The loop body for the entry (tagName, value).  A normalizedName that is
\* not a string has no startsWith: TypeError.
RECURSIVE ProcessLoop(_, _, _)
ProcessEntry(entries, i, processedTags, value, normalizedName, displayValue) ==
    IF normalizedName.kind # "str" THEN Thrown
    ELSE IF startsWith(normalizedName.s, "Unknown_Tag_")
            /\ typeof(value) = "object" /\ ~IsArray(value)
    THEN ProcessLoop(entries, i + 1, processedTags)
    ELSE IF ~displayValue.ok THEN Thrown
    ELSE ProcessLoop(entries, i + 1,
                     Append(processedTags,
                            TagRecord(normalizedName.s, value, displayValue.v)))

ProcessLoop(entries, i, processedTags) ==
    IF i > Len(entries) THEN [ok |-> TRUE, list |-> processedTags]
    ELSE ProcessEntry(entries, i, processedTags, entries[i].value,
                      normalizeTagName(entries[i].key), DisplayValue(entries[i].value))

\* ---- lines 359-366

categoryOrder == [high |-> 0, medium |-> 1, safe |-> 2]

\* The characters tag names are made of, in the order of their char codes.
AsciiOrder == "$-0123456789ABCDEFGHIJKLMNOPQRSTUVWXYZ_abcdefghijklmnopqrstuvwxyz"
\* The same characters without case, in the order of the collation's primary
\* weights: punctuation, the currency sign, digits, letters.
PrimaryOrder == "_-$0123456789abcdefghijklmnopqrstuvwxyz"

Alphabet == {CharAt(AsciiOrder, i) : i \in 1..Len(AsciiOrder)}

PositionIn(order, c) == CHOOSE i \in 1..Len(order) : CharAt(order, i) = c

PrimaryRank == [c \in Alphabet |-> PositionIn(PrimaryOrder, LowerChar(c))]
\* At the third level a small letter goes before its capital.
CaseRank == [c \in Alphabet |-> IF c \in DOMAIN UpperToLower THEN 1 ELSE 0]

\* -1, 0 or 1: a against b, character by character under rank; a proper prefix
\* goes first.
RECURSIVE CompareBy(_, _, _)
CompareBy(a, b, rank) ==
    IF Len(a) = 0 THEN (IF Len(b) = 0 THEN 0 ELSE -1)
    ELSE IF Len(b) = 0 THEN 1
    ELSE IF rank[Head(a)] < rank[Head(b)] THEN -1
    ELSE IF rank[Head(a)] > rank[Head(b)] THEN 1
    ELSE CompareBy(Tail(a), Tail(b), rank)

\* String.prototype.localeCompare under the default (root / English)
\* collation, for strings over Alphabet: the primary weights of the whole
\* strings first, then case.
localeCompare(a, b) ==
    IF CompareBy(a, b, PrimaryRank) # 0 THEN CompareBy(a, b, PrimaryRank)
    ELSE CompareBy(a, b, CaseRank)

\* A comparator that looks at the names only.
compareTagsByName(a, b) == localeCompare(a.tag, b.tag)

\* The comparator of the sort.
compareTags(a, b) ==
    IF categoryOrder[a.category] # categoryOrder[b.category]
    THEN categoryOrder[a.category] - categoryOrder[b.category]
    ELSE localeCompare(a.tag, b.tag)

\* Array.prototype.sort is stable: x goes before the first element it is
\* smaller than.
RECURSIVE InsertTag(_, _)
InsertTag(x, sorted) ==
    IF Len(sorted) = 0 THEN <<x>>
    ELSE IF compareTags(x, Head(sorted)) < 0 THEN <<x>> \o sorted
    ELSE <<Head(sorted)>> \o InsertTag(x, Tail(sorted))

RECURSIVE SortTags(_)
SortTags(list) ==
    IF Len(list) = 0 THEN <<>>
    ELSE InsertTag(list[Len(list)], SortTags(SubSeq(list, 1, Len(list) - 1)))

Sorted(r) == [ok |-> r.ok, list |-> SortTags(r.list)]

\* processExifData(rawData): ok and the sorted list, or ok = FALSE when it
\* throws.
processExifData(rawData) == Sorted(ProcessLoop(cleanData(rawData), 1, <<>>))

\* ---- calls of the library on drawn arguments

SeqRange(q) == {q[k] : k \in DOMAIN q}

\* Names no list, table or pattern knows, and names that meet the patterns
\* only.
OtherNames ==
    {"FooBarBaz", "", "model", "MODEL", "imagewidth", "Timezone", "TimeZoneOffset",
     "ColorModel", "ShotLocation", "999", "0042", "12a", "Unknown_Tag_999",
     "_raw", "$ref", "Xy-_", "LensID", "Whitepoint", "ThumbnailOffset2",
     "TimezoneDate", "ColorModelName", "FlashTimezone", "WhiteGpsCamera"}

\* The tag names the library is called with.
TagInputs ==
    SeqRange(HighTags) \cup SeqRange(MediumTags) \cup SeqRange(SafeTags)
    \cup DOMAIN EXIF_TAG_NAMES \cup {EXIF_TAG_NAMES[k] : k \in DOMAIN EXIF_TAG_NAMES}
    \cup ObjectPrototype \cup OtherNames

\* ---- the raw objects processExifData is called on

\* The longest list of assignments an object is built from.
MaxRaw == 3

ExifDate == DateValue("2024-01-01T00:00:00.000Z")
InvalidDate == DateValue("")
DMS(d, m, s) == Arr(<<Num(d, 1), Num(m, 1), Num(s, 1)>>)

\* The (key, value) pairs objects are made of.
RawPool ==
    << Entry("ImageWidth", Num(4000, 1)),
       Entry("Copyright", Str("c")),
       Entry("Artist", Str("a")),
       Entry("FileName", Str("a.jpg")),
       Entry("FNumber", Num(14, 5)),
       Entry("Model", Str("X100")),
       Entry("272", Str("Pixel")),
       Entry("Model", Num(5, 1)),
       Entry("_raw", Arr(<<Num(1, 1)>>)),
       Entry("GPSLatitude", DMS(40, 26, 46)),
       Entry("$ref", ExifDate),
       Entry("_private", Str("x")),
       Entry("$scope", Num(1, 1)),
       Entry("UserComment", Str("")),
       Entry("Flash", Undefined),
       Entry("ISO", Null),
       Entry("_thumb", ObjectValue("{}")),
       Entry("MakerNote", ObjectValue("{\"a\":1}")),
       Entry("999", Str("v")),
       Entry("10", Str("w")),
       Entry("9", ExifDate),
       Entry("DateTimeOriginal", ExifDate),
       Entry("ExposureTime", Num(1, 3)),
       Entry("imagewidth", Num(-7, 2)),
       Entry("FooBarBaz", Str("q")),
       Entry("constructor", Str("k")),
       Entry("DateTime", InvalidDate),
       Entry("ColorSpace", Num(1, 1)),
       Entry("colorSpace", Num(2, 1)),
       Entry("Color-Space", Arr(<<>>)) >>

\* How far apart in the pool the pairs of one object are.
Strides == {1, 2, 5, 7}

PoolAt(i) == RawPool[((i - 1) % Len(RawPool)) + 1]

\* The objects: up to MaxRaw assignments of pairs of the pool.
RawInputs ==
    {FromPairs([k \in 1..len |-> PoolAt(start + (k - 1) * stride)]) :
        start \in 1..Len(RawPool), stride \in Strides, len \in 1..MaxRaw}

\* The objects of a second call.
SecondInputs ==
    { FromPairs(<<Entry("Model", Null), Entry("272", DMS(1, 2, 3))>>),
      FromPairs(<<Entry("Copyright", ExifDate), Entry("FNumber", Str("f/2.8")),
                  Entry("ImageWidth", Str("wide"))>>),
      FromPairs(<<Entry("_raw", ExifDate), Entry("GPSLatitude", Num(200, 1)),
                  Entry("999", Num(3, 1))>>),
      FromPairs(<<Entry("FooBarBaz", Num(0, 1)), Entry("imagewidth", Str("w")),
                  Entry("ColorSpace", Str("sRGB"))>>) }

\* No parser is running.
ParserIdle ==
    /\ buffer = <<>>
    /\ pc = "lib"
    /\ currentOffset = 0
    /\ foundExif = FALSE
    /\ tiffStart = 0
    /\ littleEndian = FALSE
    /\ tags = <<>>
    /\ keys = <<>>
    /\ stack = <<>>
    /\ propagated = FALSE
    /\ req = {}
    /\ storedBy = <<>>
    /\ lastEntry = NoEntry
    /\ visits = <<>>
    /\ fixture = [entry |-> "lib"]

parserState == <<buffer, pc, currentOffset, foundExif, tiffStart, littleEndian, tags, keys,
                 stack, propagated, req, storedBy, lastEntry, visits, fixture>>

\* What a call of the library leaves alone besides its own variables.
parserVars == <<parserState, puzzleVars>>

\* A call is about to be made with a drawn tag name.
InitLib ==
    /\ ParserIdle
    /\ op = "none"
    /\ \/ callName \in TagInputs /\ callData = <<>>
       \/ callName = "" /\ callData \in RawInputs
    /\ result = Null
    /\ prev = Null
    /\ NoPuzzle

\* category = categorizeExifTag(tagName)
CallCategorize ==
    /\ pc = "lib"
    /\ op = "none"
    /\ callData = <<>>
    /\ result' = categorizeExifTag(callName)
    /\ op' = "categorize"
    /\ UNCHANGED <<callName, callData, prev, parserVars>>

\* normalizedName = normalizeTagName(tagName)
CallNormalize ==
    /\ pc = "lib"
    /\ op = "none"
    /\ callData = <<>>
    /\ result' = normalizeTagName(callName)
    /\ op' = "normalize"
    /\ UNCHANGED <<callName, callData, prev, parserVars>>

\* normalizeTagName applied to the name it returned.
CallNormalizeAgain ==
    /\ pc = "lib"
    /\ op = "normalize"
    /\ result.kind = "str"
    /\ callName' = result.s
    /\ result' = normalizeTagName(result.s)
    /\ prev' = result
    /\ op' = "renormalize"
    /\ UNCHANGED <<callData, parserVars>>

\* processedTags = processExifData(rawData)
CallProcess ==
    /\ pc = "lib" /\ op = "none" /\ callData # <<>>
    /\ result' = processExifData(callData)
    /\ op' = "process"
    /\ UNCHANGED <<callName, callData, prev, parserVars>>

\* A second call, on another object, after the first has returned.
CallProcessAgain ==
    /\ pc = "lib" /\ op = "process"
    /\ \E rawData \in SecondInputs :
          /\ callData' = rawData
          /\ result' = processExifData(rawData)
    /\ prev' = result
    /\ op' = "reprocess"
    /\ UNCHANGED <<callName, parserVars>>

NextLib ==
    \/ CallCategorize
    \/ CallNormalize
    \/ CallNormalizeAgain
    \/ CallProcess
    \/ CallProcessAgain

SpecLib == InitLib /\ [][NextLib]_vars

\* ---- C11

\* C11: categorizeExifTag("Model") returns 'medium'.
C11_ModelIsMedium ==
    (op = "categorize" /\ callName = "Model") => result = "medium"

\* ---- C12

\* The name meets no list entry and no pattern.
MatchesNothing(name) ==
    /\ ~ListMatches(HighTags, name, toLowerCase(name))
    /\ ~HighPattern(toLowerCase(name))
    /\ ~ListMatches(MediumTags, name, toLowerCase(name))
    /\ ~MediumPattern(toLowerCase(name))
    /\ ~ListMatches(SafeTags, name, toLowerCase(name))

\* C12: categorizeExifTag gives 'high' for "GPSLatitude", 'safe' for
\* "ImageWidth", 'medium' for a name that meets no list entry and no pattern,
\* and one of the three tiers for every name.
C12_Tiers ==
    op = "categorize" =>
        /\ result \in {"high", "medium", "safe"}
        /\ callName = "GPSLatitude" => result = "high"
        /\ callName = "ImageWidth" => result = "safe"
        /\ MatchesNothing(callName) => result = "medium"

\* "FooBarBaz" was classified.
C12_Witness ==
    /\ op = "categorize"
    /\ callName = "FooBarBaz"
    /\ MatchesNothing(callName)
    /\ result = "medium"

\* ---- C14

\* C14: normalizing an already normalized name changes nothing, so the category
\* of the normalized name is the category reached from the raw form.
C14_NormalizeIdempotent ==
    op = "renormalize" =>
        /\ result = prev
        /\ categorizeExifTag(result.s) = categorizeExifTag(prev.s)

\* The canonical name of the numeric ID 272 was normalized again.
C14_Witness ==
    /\ op = "renormalize"
    /\ callName = EXIF_TAG_NAMES["272"]
    /\ prev = Str("Model")
    /\ result = Str("Model")

\* ---- C15

\* C15: normalizeTagName returns the mapped name for a key of the table, else
\* 'Unknown_Tag_' and the input for an input of decimal digits only, else the
\* input unchanged.
C15_ThreeOutcomes ==
    op = "normalize" =>
        result = IF callName \in DOMAIN EXIF_TAG_NAMES THEN Str(EXIF_TAG_NAMES[callName])
                 ELSE IF IsDigits(callName) THEN Str("Unknown_Tag_" \o callName)
                 ELSE Str(callName)

\* ---- C13

\* The records of a returned list (none before a call, none when it threw).
ListOf(r) == IF "list" \in DOMAIN r THEN r.list ELSE <<>>
RecordsOf(r) == {ListOf(r)[i] : i \in DOMAIN ListOf(r)}

\* C13: in the lists processExifData returns, in one call or in two calls on
\* different objects, two records with the same tag name carry the same
\* category, whatever their values and the other entries.
C13_CategoryByNameOnly ==
    op \in {"process", "reprocess"} =>
        \A r1, r2 \in RecordsOf(prev) \cup RecordsOf(result) :
            r1.tag = r2.tag => r1.category = r2.category

\* Two calls returned a record of the same name for values of different kinds,
\* among other records.
C13_Witness ==
    /\ op = "reprocess"
    /\ Len(ListOf(prev)) > 1
    /\ Len(ListOf(result)) > 1
    /\ \E r1 \in RecordsOf(prev), r2 \in RecordsOf(result) :
          r1.tag = r2.tag /\ r1.value.kind # r2.value.kind

\* ---- C16

\* The keys of the object whose entry must yield no record.
Suppressed(e) ==
    \/ e.value = Undefined
    \/ e.value = Null
    \/ IsEmptyString(e.value)
    \/ startsWith(e.key, "_")
    \/ startsWith(e.key, "$")

\* C16: processExifData emits no record for an entry whose value is
\* undefined, null or '' nor for an entry whose key starts with '_' or '$',
\* whatever the type of the value.  (The record of an entry carries the
\* normalized key; the entries looked at are those whose key is its own
\* normal form and the normal form of no other key of the object.)
OwnName(obj, i) ==
    \A j \in DOMAIN obj :
        (normalizeTagName(obj[j].key) = Str(obj[i].key)) <=> (j = i)

C16_NoSuppressedRecord ==
    op = "process" =>
        \A i \in DOMAIN callData :
            (Suppressed(callData[i]) /\ OwnName(callData, i))
                => \A r \in RecordsOf(result) : r.tag # callData[i].key

\* ---- C17

CodeUnitRank == [c \in Alphabet |-> PositionIn(AsciiOrder, c)]

\* a <= b as strings: by char codes.
CodeUnitLeq(a, b) == CompareBy(a, b, CodeUnitRank) <= 0

Rank(r) == categoryOrder[r.category]

\* C17 as stated: the returned list is ordered by the rank of the category
\* (high = 0, medium = 1, safe = 2) and, at equal rank, by tag_i <= tag_j.
C17_SortedByCodeUnits ==
    (op = "process" /\ result.ok) =>
        \A i, j \in DOMAIN result.list :
            i < j => /\ Rank(result.list[i]) <= Rank(result.list[j])
                     /\ Rank(result.list[i]) = Rank(result.list[j])
                            => CodeUnitLeq(result.list[i].tag, result.list[j].tag)

\* C17, amended: the returned list is ordered by the rank of the category and,
\* at equal rank, by the collation order of localeCompare (letters without
\* regard to case first, a small letter before its capital on a tie), which
\* is not the order of <= on strings.
C17_SortedByCollation ==
    (op = "process" /\ result.ok) =>
        \A i, j \in DOMAIN result.list :
            i < j => /\ Rank(result.list[i]) <= Rank(result.list[j])
                     /\ Rank(result.list[i]) = Rank(result.list[j])
                            => localeCompare(result.list[i].tag, result.list[j].tag) <= 0

\* Three entries came out in another order than they went in: the high one
\* first, then two of one category where the collation and <= disagree.
C17_Witness ==
    /\ op = "process"
    /\ result.ok
    /\ Len(callData) = 3
    /\ Len(result.list) = 3
    /\ callData[3].key = result.list[1].tag
    /\ Rank(result.list[1]) < Rank(result.list[2])
    /\ Rank(result.list[2]) = Rank(result.list[3])
    /\ ~CodeUnitLeq(result.list[2].tag, result.list[3].tag)

\* ---------------------------------------------------------------- POST
\* src/src/app/api/extract-exif/route.ts, lines 468-534: the file info, the
\* tag list and the GPS record made from a decoded tag map.

NaN == [kind |-> "nan"]

\* Exact arithmetic on numbers (the rounding of doubles is left out).
NumAdd(a, b) == Num(a.n * b.d + b.n * a.d, a.d * b.d)
NumOver(a, k) == Num(a.n, a.d * k)
NumNeg(a) == Num(-a.n, a.d)
NumLeq(a, b) == a.n * b.d <= b.n * a.d

\* The first index from i on that holds no digit.
RECURSIVE DigitRun(_, _)
DigitRun(s, i) ==
    IF i <= Len(s) /\ CharAt(s, i) \in Digits THEN DigitRun(s, i + 1) ELSE i

RECURSIVE SpaceRun(_, _)
SpaceRun(s, i) ==
    IF i <= Len(s) /\ CharAt(s, i) = " " THEN SpaceRun(s, i + 1) ELSE i

RECURSIVE Pow10(_)
Pow10(k) == IF k = 0 THEN 1 ELSE 10 * Pow10(k - 1)

HasAt(s, i, c) == i <= Len(s) /\ CharAt(s, i) = c

\* The decimal literal at the head of s: sign, digits from d1 up to d2, and
\* after a point the digits up to d3 (exponents and Infinity are left out).
FloatOf(s, sign, d1, d2, d3) ==
    IF d2 = d1 /\ d3 <= d2 + 1 THEN [v |-> NaN, end |-> d1]
    ELSE IF d3 <= d2 + 1
    THEN [v |-> Num(sign * ToNumber(SubSeq(s, d1, d2 - 1)), 1),
          end |-> IF d3 = d2 + 1 THEN d3 ELSE d2]
    ELSE [v |-> Num(sign * (ToNumber(SubSeq(s, d1, d2 - 1)) * Pow10(d3 - d2 - 1)
                            + ToNumber(SubSeq(s, d2 + 1, d3 - 1))),
                    Pow10(d3 - d2 - 1)),
          end |-> d3]

FloatAfterInt(s, sign, d1, d2) ==
    FloatOf(s, sign, d1, d2, IF HasAt(s, d2, ".") THEN DigitRun(s, d2 + 1) ELSE d2)

FloatFrom(s, st) ==
    IF HasAt(s, st, "-") THEN FloatAfterInt(s, -1, st + 1, DigitRun(s, st + 1))
    ELSE IF HasAt(s, st, "+") THEN FloatAfterInt(s, 1, st + 1, DigitRun(s, st + 1))
    ELSE FloatAfterInt(s, 1, st, DigitRun(s, st))

\* parseFloat(s)
parseFloat(s) == FloatFrom(s, SpaceRun(s, 1)).v

\* Number(s) for a string: the whole of it must be the literal; '' is 0.
NumberOfString(s) ==
    IF SpaceRun(s, 1) > Len(s) THEN Num(0, 1)
    ELSE IF SpaceRun(s, FloatFrom(s, SpaceRun(s, 1)).end) > Len(s)
    THEN parseFloat(s)
    ELSE NaN

\* Number(v)
Number(v) ==
    CASE v.kind = "num" -> v
      [] v.kind = "null" -> Num(0, 1)
      [] v.kind = "str" -> NumberOfString(v.s)
      [] OTHER -> NaN

\* tags[key]
Get(obj, key) ==
    IF \E i \in DOMAIN obj : obj[i].key = key
    THEN obj[CHOOSE i \in DOMAIN obj : obj[i].key = key].value
    ELSE Undefined

Truthy(v) ==
    CASE v.kind = "undefined" -> FALSE
      [] v.kind = "null" -> FALSE
      [] v.kind = "nan" -> FALSE
      [] v.kind = "num" -> v.n # 0
      [] v.kind = "str" -> Len(v.s) > 0
      [] OTHER -> TRUE

\* a || b
OrElse(a, b) == IF Truthy(a) THEN a ELSE b

\* (ref === 'S' || ref === 'W') ? -decimal : decimal
BySouthOrWest(decimal, ref) ==
    IF ref = Str("S") \/ ref = Str("W") THEN NumNeg(decimal) ELSE decimal

\* deg + min / 60 + sec / 3600 of the first three elements
Triple(deg, min, sec, ref) ==
    IF deg # NaN /\ min # NaN /\ sec # NaN
    THEN BySouthOrWest(NumAdd(NumAdd(deg, NumOver(min, 60)), NumOver(sec, 3600)), ref)
    ELSE Null

FromString(num, ref) == IF num # NaN THEN BySouthOrWest(num, ref) ELSE Null

\* convertGPSToDecimal(coord, ref), lines 482-506 (an array that yields a NaN
\* is neither a number nor a string, and falls to the last return)
convertGPSToDecimal(coord, ref) ==
    IF IsArray(coord) /\ Len(coord.a) >= 3
    THEN Triple(Number(coord.a[1]), Number(coord.a[2]), Number(coord.a[3]), ref)
    ELSE IF typeof(coord) = "number" THEN BySouthOrWest(coord, ref)
    ELSE IF typeof(coord) = "string" THEN FromString(parseFloat(coord.s), ref)
    ELSE Null

\* String(gpsAlt) of an array starts with its first element.
AltitudeText(gpsAlt) ==
    IF gpsAlt.kind = "str" THEN parseFloat(gpsAlt.s)
    ELSE IF IsArray(gpsAlt) /\ Len(gpsAlt.a) >= 1 THEN Number(gpsAlt.a[1])
    ELSE NaN

Altitude(gpsAlt) ==
    IF Truthy(gpsAlt)
    THEN (IF typeof(gpsAlt) = "number" THEN gpsAlt ELSE AltitudeText(gpsAlt))
    ELSE Undefined

\* Lines 526-533
GpsRecord(latitude, longitude, gpsAlt) ==
    IF latitude # Null /\ longitude # Null
    THEN [kind |-> "gps", latitude |-> latitude, longitude |-> longitude,
          altitude |-> Altitude(gpsAlt)]
    ELSE Undefined

\* Lines 508-536
GpsData(gpsLat, gpsLon, gpsLatRef, gpsLonRef, gpsAlt) ==
    IF gpsLat # Undefined /\ gpsLon # Undefined
    THEN GpsRecord(convertGPSToDecimal(gpsLat, gpsLatRef),
                   convertGPSToDecimal(gpsLon, gpsLonRef), gpsAlt)
    ELSE Undefined

ExtractGps(t) ==
    GpsData(Get(t, "GPSLatitude"), Get(t, "GPSLongitude"),
            OrElse(Get(t, "GPSLatitudeRef"), Str("N")),
            OrElse(Get(t, "GPSLongitudeRef"), Str("E")), Get(t, "GPSAltitude"))

\* if (imageWidth) tags.ImageWidth = imageWidth
AssignIf(obj, key, value) == IF Truthy(value) THEN Assign(obj, key, value) ELSE obj

\* The uploaded file.
File == [name |-> "a.jpg", size |-> 1234, type |-> "image/jpeg"]

\* Lines 468-473
WithFileInfo(t, format, imageWidth, imageHeight) ==
    AssignIf(AssignIf(
        Assign(Assign(Assign(Assign(t, "FileName", Str(File.name)),
                             "FileSize", Num(File.size, 1)),
                      "FileType", Str(format)),
               "MIMEType", Str(File.type)),
        "ImageWidth", imageWidth), "ImageHeight", imageHeight)

\* The response made of the tag list and the GPS record; a throw of
\* processExifData goes to the catch of the handler (status 500).
Response(processedTags, gpsData) ==
    IF processedTags.ok
    THEN [ok |-> TRUE, list |-> processedTags.list, gpsData |-> gpsData]
    ELSE [ok |-> FALSE, list |-> <<>>, gpsData |-> Undefined]

Respond(t) == Response(processExifData(t), ExtractGps(t))

\* What sharp reports of the image: nothing (the import or the decoding
\* fails and the sizes come from the tags) or a format and the sizes.
SharpOutcomes ==
    { [ok |-> FALSE, format |-> "", width |-> 0, height |-> 0],
      [ok |-> TRUE, format |-> "jpeg", width |-> 640, height |-> 480] }

\* Lines 451-465
Dimension(t, sharp, side, exifName, name) ==
    IF sharp.ok THEN Num(side, 1)
    ELSE OrElse(OrElse(Get(t, exifName), Get(t, name)), Num(0, 1))

Format(sharp) == IF sharp.ok THEN sharp.format ELSE "jpeg"

\* ---- the decoded tag maps of the handler

LatitudeValues ==
    { Undefined, DMS(40, 26, 46), DMS(200, 0, 0), Num(81, 2), Num(-91, 1),
      Str("40.5"), Str("north"), Arr(<<Num(1, 1), Num(2, 1)>>) }
LongitudeValues ==
    { Undefined, DMS(79, 58, 56), Num(181, 1), Str(" -12.25abc"),
      Arr(<<Num(7, 1), Null, Str("30"), Num(9, 1)>>) }
LatitudeRefValues == { Undefined, Str("N"), Str("S"), Str("W"), Str("") }
LongitudeRefValues == { Undefined, Str("E"), Str("W"), Str("S") }
AltitudeValues == { Undefined, Num(0, 1), Str("12.5") }

\* tags with the GPS entries that are present.
Present(pairs) == SelectSeq(pairs, LAMBDA e : e.value # Undefined)

GpsInputs ==
    { Present(<< Entry("GPSLatitudeRef", latRef), Entry("GPSLatitude", lat),
                 Entry("GPSLongitudeRef", lonRef), Entry("GPSLongitude", lon),
                 Entry("GPSAltitude", alt) >>) :
        lat \in LatitudeValues, latRef \in LatitudeRefValues,
        lon \in LongitudeValues, lonRef \in LongitudeRefValues, alt \in AltitudeValues }

InitPost ==
    /\ ParserIdle
    /\ op = "none"
    /\ callName = ""
    /\ callData \in GpsInputs
    /\ result = Null
    /\ prev = Null
    /\ NoPuzzle

\* POST from the return of parser.parse() (line 443) to the response.
Post ==
    /\ pc = "lib" /\ op = "none"
    /\ \E sharp \in SharpOutcomes :
          result' = Respond(WithFileInfo(callData, Format(sharp),
                        Dimension(callData, sharp, sharp.width, "ExifImageWidth", "ImageWidth"),
                        Dimension(callData, sharp, sharp.height, "ExifImageHeight", "ImageHeight")))
    /\ op' = "post"
    /\ UNCHANGED <<callName, callData, prev, parserVars>>

NextPost == Post

SpecPost == InitPost /\ [][NextPost]_vars

\* ---- C18

\* The magnitude decoded from a coordinate: its value under a reference that
\* asks for no sign.
Magnitude(coord) == convertGPSToDecimal(coord, Str(""))

LatRef == OrElse(Get(callData, "GPSLatitudeRef"), Str("N"))
LonRef == OrElse(Get(callData, "GPSLongitudeRef"), Str("E"))
LatMagnitude == Magnitude(Get(callData, "GPSLatitude"))
LonMagnitude == Magnitude(Get(callData, "GPSLongitude"))

HasGps == op = "post" /\ result.ok /\ result.gpsData # Undefined

\* C18: for non-negative magnitudes the reported latitude is -m when the
\* latitude reference is 'S' and +m for every other reference (absent: 'N');
\* the reported longitude is -m when the longitude reference is 'W' and +m
\* for every other reference (absent: 'E').
C18_SignRule ==
    HasGps =>
        /\ NumLeq(Num(0, 1), LatMagnitude) =>
              result.gpsData.latitude =
                  (IF LatRef = Str("S") THEN NumNeg(LatMagnitude) ELSE LatMagnitude)
        /\ NumLeq(Num(0, 1), LonMagnitude) =>
              result.gpsData.longitude =
                  (IF LonRef = Str("W") THEN NumNeg(LonMagnitude) ELSE LonMagnitude)

\* ---- C19

\* C19: a gpsData record has its latitude in [-90, 90] and its longitude in
\* [-180, 180].
C19_GpsInRange ==
    HasGps =>
        /\ NumLeq(Num(-90, 1), result.gpsData.latitude)
        /\ NumLeq(result.gpsData.latitude, Num(90, 1))
        /\ NumLeq(Num(-180, 1), result.gpsData.longitude)
        /\ NumLeq(result.gpsData.longitude, Num(180, 1))

\* ---------------------------------------------------------------- runs
\* parser.parse() and processExifData(tags), one run after another, each on
\* a parser of its own.

\* The most runs in a row.
MaxRuns == 3

\* The buffers of the runs: two whole ones with different tags, one in the
\* other byte order, one whose ExifOffset points back at its own directory,
\* one cut short, and one that is scanned from its first byte.  No two of
\* them have the same bytes, so the point a run starts at goes with its buffer.
RunFixtures ==
    { Fx("tiff", <<>>, TRUE, FALSE, Window(1, 2), <<>>, "none", "none", "ok", 0),
      Fx("tiff", <<>>, TRUE, TRUE, Window(23, 2), <<>>, "none", "none", "ok", 0),
      Fx("tiff", <<>>, TRUE, FALSE, Window(21, 1), <<>>, "none", "none", "ok", 0),
      Fx("tiff", <<>>, TRUE, FALSE, Window(7, 2), <<>>, "none", "none", "ok", 4),
      Fx("parse", <<>>, TRUE, FALSE, Window(4, 1), <<>>, "none", "none", "ok", 0) }

\* tags as Object.entries sees it.
TagsObject == [i \in DOMAIN keys |-> Entry(keys[i], tags[keys[i]])]

InitRuns ==
    /\ \E fx \in RunFixtures :
          /\ fixture = fx
          /\ buffer = BufferOf(fx)
          /\ pc = IF fx.entry = "parse" THEN "start" ELSE "header"
          /\ currentOffset = IF fx.entry = "parse" THEN 0 ELSE App1Offset(fx)
          /\ foundExif = (fx.entry = "tiff")
          /\ tiffStart = IF fx.entry = "parse" THEN 0 ELSE App1Offset(fx) + 10
    /\ littleEndian = FALSE
    /\ tags = <<>>
    /\ keys = <<>>
    /\ stack = <<>>
    /\ propagated = FALSE
    /\ req = {}
    /\ storedBy = <<>>
    /\ lastEntry = NoEntry
    /\ visits = <<>>
    /\ op = "none"
    /\ callName = ""
    /\ callData = <<>>
    /\ result = Null
    /\ prev = <<>>
    /\ NoPuzzle

\* One finished run: what went in and what came out.
RunRecord(processedTags) ==
    [buffer |-> buffer, tags |-> tags, keys |-> keys, list |-> processedTags]

\* processExifData(tags) on the map parse() returned; prev keeps the runs.
RunProcess ==
    /\ pc = "done" /\ op = "none"
    /\ callData' = TagsObject
    /\ result' = processExifData(TagsObject)
    /\ prev' = Append(prev, RunRecord(processExifData(TagsObject)))
    /\ op' = "run"
    /\ UNCHANGED <<callName, parserVars>>

\* A map that is kept from one parse() to the next.
CarriedTags == [tags |-> tags, keys |-> keys]

\* const tags: Record<string, any> = {} (line 65): a local of parse().
LocalTags == [tags |-> <<>>, keys |-> <<>>]

\* new RobustExifParser(buffer).parse() up to where the fixture starts: the
\* fields are those of the new instance, the locals those of the new call.
NewParser(fx) ==
    /\ pc = "done" /\ op = "run" /\ Len(prev) < MaxRuns
    /\ fixture' = fx
    /\ buffer' = BufferOf(fx)
    /\ pc' = IF fx.entry = "parse" THEN "start" ELSE "header"
    /\ currentOffset' = IF fx.entry = "parse" THEN 0 ELSE App1Offset(fx)
    /\ foundExif' = (fx.entry = "tiff")
    /\ tiffStart' = IF fx.entry = "parse" THEN 0 ELSE App1Offset(fx) + 10
    /\ littleEndian' = FALSE
    /\ tags' = LocalTags.tags
    /\ keys' = LocalTags.keys
    /\ stack' = <<>>
    /\ propagated' = FALSE
    /\ req' = {}
    /\ storedBy' = <<>>
    /\ lastEntry' = NoEntry
    /\ visits' = <<>>
    /\ op' = "none"
    /\ UNCHANGED <<callName, callData, result, prev, puzzleVars>>

NextRuns ==
    \/ Next
    \/ RunProcess
    \/ \E fx \in RunFixtures : NewParser(fx)

SpecRuns == InitRuns /\ [][NextRuns]_vars

\* ---- C20

ZeroDenominatorRead ==
    /\ lastEntry.valid
    /\ lastEntry.known
    /\ lastEntry.type \in {5, 10}
    /\ lastEntry.count = 1
    /\ fixture.cut = 0
    /\ FromDirA \/ FromDirB
    /\ DrawnEntry.type = lastEntry.type
    /\ DrawnEntry.place = "auto"
    /\ Len(DrawnEntry.vals) = 1
    /\ DrawnEntry.vals[1][2] = 0
    /\ LastInBounds

\* C21: an in-bounds rational whose denominator is 0 is read as the value 0,
\* not as a missing value.
C21_ZeroDenominatorIsZero ==
    ZeroDenominatorRead => ValEq(lastEntry.val, Num(0, 1))

\* ---- C22

\* A decoded entry with a field-level failure: an ID in no table, a type code
\* without a size, count 0, or data out of line that does not fit the buffer.
BadDecoded(e) ==
    \/ e.tag \notin DOMAIN TagNames
    \/ getTypeSize(e.type) = 0
    \/ e.count = 0
    \/ /\ TotalSize(getTypeSize(e.type), e.count) > 4
       /\ ~checkBounds(Off(tiffStart + e.valueOffset),
                       TotalSize(getTypeSize(e.type), e.count))

\* The same of an entry a directory was built from.
BadDrawn(e) ==
    \/ e.tag \notin DOMAIN TagNames
    \/ getTypeSize(e.type) = 0
    \/ e.count = 0
    \/ e.place = "far"

\* The step that handles a failing entry stores nothing, changes nothing that
\* was stored, raises nothing, and leaves the loop at the next entry.
BadEntryStep ==
    (/\ pc = "ifd"
     /\ Top.stage = "entries"
     /\ lastEntry'.valid
     /\ BadDecoded(lastEntry'))
    => /\ tags' = tags
       /\ keys' = keys
       /\ storedBy' = storedBy
       /\ pc' = "ifd"
       /\ ~propagated'
       /\ stack' = SetTop([Top EXCEPT !.currentOffset = OffAdd(Top.currentOffset, 12),
                                      !.i = Top.i + 1])
       /\ UNCHANGED <<buffer, tiffStart, littleEndian>>

\* The entry after a failing one is read from its own twelve bytes and, when
\* it is a well-formed BYTE, ASCII, SHORT or LONG, decodes to what it was
\* built from.
AfterBadEntry ==
    (/\ lastEntry.valid
     /\ fixture.cut = 0
     /\ FromDirA
     /\ lastEntry.i >= 1
     /\ BadDrawn(fixture.a[lastEntry.i]))
    => /\ lastEntry.entryOffset = OffAdd(lastEntry.ifdOffset, 2 + 12 * lastEntry.i)
       /\ lastEntry.tag = DrawnEntry.tag
       /\ lastEntry.type = DrawnEntry.type
       /\ lastEntry.count = DrawnEntry.count
       /\ (WellFormedEntry(DrawnEntry) /\ DrawnEntry.type \in {1, 2, 3, 4})
              => /\ ValEq(lastEntry.val, Logical(DrawnEntry))
                 /\ lastEntry.name \in DOMAIN tags
                 /\ ValEq(tags[lastEntry.name], Logical(DrawnEntry))

\* C22: in parseIFD an entry with an unknown tag ID, an unsupported type code,
\* count 0 or an out-of-line value that leaves the buffer stores no key and
\* changes no key, and the later entries of the directory are decoded as they
\* are without it.
C22_FieldFailuresLocal == [][BadEntryStep]_vars /\ []AfterBadEntry

\* The second entry of a directory was stored after the first one failed.
C22_Witness ==
    /\ lastEntry.valid
    /\ fixture.cut = 0
    /\ FromDirA
    /\ lastEntry.i = 1
    /\ BadDrawn(fixture.a[1])
    /\ WellFormedEntry(DrawnEntry)
    /\ DOMAIN tags = {lastEntry.name}

\* ---- C23

\* The uint16 at the start of the directory the innermost activation was
\* entered with, when it is inside the buffer at a whole offset.
CountReadable(off) == ~off.f /\ off.q >= 0 /\ off.q + 2 <= Len(buffer)
CountAt(off) == Word16(off.q, littleEndian)

\* Entering a directory that declares more than 100 entries goes straight to
\* the return: nothing is decoded or stored and no directory is entered.
OverCapStep ==
    (/\ pc = "ifd"
     /\ Top.stage = "enter"
     /\ CountReadable(Top.ifdOffset)
     /\ CountAt(Top.ifdOffset) > 100)
    => /\ stack' = SetTop([Top EXCEPT !.stage = "ret"])
       /\ pc' = "ifd"
       /\ lastEntry' = NoEntry
       /\ UNCHANGED <<tags, keys, storedBy, visits, propagated>>

\* No entry is ever decoded from a directory that declares more than 100.
NoEntryOverCap ==
    (lastEntry.valid /\ CountReadable(lastEntry.ifdOffset))
        => CountAt(lastEntry.ifdOffset) <= 100

\* A first directory that declares exactly 100 entries is decoded: parse()
\* returns the first entry, a well-formed BYTE, ASCII, SHORT or LONG.
CapIsInclusive ==
    (/\ pc = "done"
     /\ fixture.hdr = "A100"
     /\ WellFormedEntry(fixture.a[1])
     /\ fixture.a[1].type \in {1, 2, 3, 4})
    => TagNames[fixture.a[1].tag] \in DOMAIN tags

\* C23: parseIFD decodes no entry of a directory whose entry count is greater
\* than 100, stores nothing from it, does not follow its next-IFD pointer and
\* leaves the tags collected so far as they are; a count of exactly 100 is
\* still decoded.
C23_EntryCountCap == [][OverCapStep]_vars /\ [](NoEntryOverCap /\ CapIsInclusive)

\* parse() returned the tags of the first directory alone: the second one,
\* reached through the next-IFD pointer, declares 101 entries.
C23_Witness ==
    /\ pc = "done"
    /\ fixture.hdr = "B101"
    /\ fixture.nextA = "B"
    /\ Len(visits) = 2
    /\ Len(keys) = 2
    /\ DOMAIN tags = {TagNames[fixture.a[j].tag] : j \in DOMAIN fixture.a}

\* ---- C24

\* t contains one of the words.
ContainsAny(t, words) == \E w \in words : includes(t, w)

\* t is, or contains, an entry of the list, without regard to case.
AllowListed(list, t) ==
    \E k \in DOMAIN list : t = toLowerCase(list[k]) \/ includes(t, toLowerCase(list[k]))

\* The nine rules in their order, on the lowercased name t: each as whether
\* it matches and the category it gives.
CascadeRules(t) ==
    << [match |-> AllowListed(HighTags, t), category |-> "high"],
       [match |-> ContainsAny(t, {"gps", "location", "coordinate", "latitude", "longitude"}),
        category |-> "high"],
       [match |-> includes(t, "date") \/ (includes(t, "time") /\ ~includes(t, "timezone")),
        category |-> "high"],
       [match |-> ContainsAny(t, {"owner", "artist", "serial", "comment", "author",
                                  "copyright"}),
        category |-> "high"],
       [match |-> AllowListed(MediumTags, t), category |-> "medium"],
       [match |-> ContainsAny(t, {"camera", "lens", "make"})
                  \/ (includes(t, "model") /\ ~includes(t, "color")),
        category |-> "medium"],
       [match |-> ContainsAny(t, {"exposure", "iso", "focal", "aperture", "shutter",
                                  "flash", "white", "orientation"}),
        category |-> "medium"],
       [match |-> AllowListed(SafeTags, t), category |-> "safe"],
       [match |-> TRUE, category |-> "medium"] >>

\* The category of the first rule that matches.
FirstMatch(rules) ==
    rules[CHOOSE i \in DOMAIN rules :
              rules[i].match /\ \A j \in 1..(i - 1) : ~rules[j].match].category

\* C24: for every tag name categorizeExifTag returns the category of the
\* first matching rule of the nine-rule cascade, all comparisons without
\* regard to case.
C24_FirstMatchWins ==
    op = "categorize" => result = FirstMatch(CascadeRules(toLowerCase(callName)))

\* A name that the high list does not hold, that a high pattern and a medium
\* rule both match, was given the category of the earlier rule.
C24_Witness ==
    /\ op = "categorize"
    /\ ~CascadeRules(toLowerCase(callName))[1].match
    /\ \E i \in 2..4 : CascadeRules(toLowerCase(callName))[i].match
    /\ \E i \in 5..7 : CascadeRules(toLowerCase(callName))[i].match
    /\ result = "high"

\* ---- C25

\* C25: an entry whose value is a plain object and whose key is not reserved
\* appears in the output as a record whose value is the object's JSON string,
\* cut to 100 characters and the marker '...' when it is longer.
C25_PlainObjectAsJson ==
    (op = "process" /\ result.ok) =>
        \A i \in DOMAIN callData :
            (/\ callData[i].value.kind = "object"
             /\ ~startsWith(callData[i].key, "_")
             /\ ~startsWith(callData[i].key, "$")
             /\ normalizeTagName(callData[i].key).kind = "str")
            => \E r \in RecordsOf(result) :
                  /\ r.tag = normalizeTagName(callData[i].key).s
                  /\ r.value = Str(Shorten(callData[i].value.json))

\* ---------------------------------------------------------------- legacy parser
\* class ExifParser of src/unnamed/part_002 (lines 167-524), the parser the
\* extraction route used before RobustExifParser.  It has one cursor,
\* this.offset, which every reader moves.  Its run is kept in the variables of
\* the parser: buffer is this.buffer, currentOffset is this.offset, foundExif,
\* tiffStart and littleEndian are the locals of parse(), tags and keys are the
\* object parse() returns, stack holds the activations of parseIFD.

\* What a reader hands back: the value, this.offset afterwards, and whether it
\* raised RangeError.
LegacyResult(val, off, exc) == [val |-> val, off |-> off, exc |-> exc]

\* a + b for an offset a and a count b of up to Huge
LegacyPlus(a, b) == IF a >= 0 /\ b >= Huge THEN Huge ELSE a + b

\* Lines 175-189: Buffer.readUInt16LE/BE, readUInt32LE/BE (and readInt32LE/BE
\* of lines 369-376) at this.offset, which raise RangeError outside the buffer,
\* then this.offset += width.
LegacyRead(r, off, width) ==
    LegacyResult(IntNum(r.v), IF r.exc THEN off ELSE off + width, r.exc)

LegacyReadUint16(off, le) == LegacyRead(getUint16(Off(off), le), off, 2)
LegacyReadUint32(off, le) == LegacyRead(getUint32(Off(off), le), off, 4)
LegacyReadInt32(off, le) == LegacyRead(getInt32(Off(off), le), off, 4)

\* Buffer.subarray(start, end): a negative index counts from the end, and both
\* indices are clamped to the buffer.
ClampIndex(k) ==
    IF k < 0 THEN (IF Len(buffer) + k < 0 THEN 0 ELSE Len(buffer) + k)
    ELSE IF k > Len(buffer) THEN Len(buffer) ELSE k

LegacySubarray(start, end) ==
    IF ClampIndex(end) <= ClampIndex(start) THEN <<>>
    ELSE SubSeq(buffer, ClampIndex(start) + 1, ClampIndex(end))

IsNotNul(c) == c # 0

\* toString('ascii') clears the high bit of every byte; replace(/\0/g, '')
\* then drops every NUL.
AsciiWithoutNul(bytes) ==
    SelectSeq([i \in 1..Len(bytes) |-> bytes[i] % 128], IsNotNul)

\* Lines 191-195.
LegacyReadString(off, length) ==
    LegacyResult(Str(AsciiWithoutNul(LegacySubarray(off, LegacyPlus(off, length)))),
                 LegacyPlus(off, length), FALSE)

\* denominator !== 0 ? numerator / denominator : 0 (lines 197-201, 378-379)
LegacyQuotient(numerator, denominator) ==
    IF numerator.exc \/ denominator.exc THEN LegacyResult(Null, numerator.off, TRUE)
    ELSE LegacyResult(IF denominator.val.n # 0
                      THEN Num(numerator.val.n, denominator.val.n)
                      ELSE IntNum(0),
                      denominator.off, FALSE)

LegacyReadRational(off, le) ==
    LegacyQuotient(LegacyReadUint32(off, le), LegacyReadUint32(off + 4, le))

\* Lines 388-391: sizes[type] || 1
LegacyTypeSize(type) ==
    IF type \in 1..12
    THEN <<1, 1, 2, 4, 8, 1, 1, 2, 4, 8, 4, 8>>[type]
    ELSE 1

\* One element of a SHORT, LONG or RATIONAL value.
LegacyElem(type, off, le) ==
    CASE type = 3 -> LegacyReadUint16(off, le)
      [] type = 4 -> LegacyReadUint32(off, le)
      [] type = 5 -> LegacyReadRational(off, le)

\* Array.from({length: count}, () => this.read...(littleEndian))
RECURSIVE LegacyArrayLoop(_, _, _, _, _, _)
LegacyArrayBody(type, count, i, le, acc, r) ==
    IF r.exc THEN LegacyResult(Null, r.off, TRUE)
    ELSE LegacyArrayLoop(type, count, i + 1, r.off, le, Append(acc, r.val))

LegacyArrayLoop(type, count, i, off, le, acc) ==
    IF i >= count THEN LegacyResult(Arr(acc), off, FALSE)
    ELSE LegacyArrayBody(type, count, i, le, acc, LegacyElem(type, off, le))

\* The numbers of a run of bytes.
ByteValues(bytes) == [i \in 1..Len(bytes) |-> IntNum(bytes[i])]

\* A Buffer value (type 7).
BufferValue(bytes) == [kind |-> "buffer", a |-> bytes]

\* Lines 344-386, with this.offset = off on entry.
LegacyReadValueByType(type, count, off, le) ==
    CASE type = 1 ->
            IF count = 1
            THEN LegacyResult(IF off >= 0 /\ off < Len(buffer)
                              THEN IntNum(buffer[off + 1]) ELSE Undefined,
                              off + 1, FALSE)
            ELSE LegacyResult(Arr(ByteValues(LegacySubarray(off, LegacyPlus(off, count)))),
                              LegacyPlus(off, count), FALSE)
      [] type = 2 -> LegacyReadString(off, count)
      [] type \in {3, 4, 5} ->
            IF count = 1 THEN LegacyElem(type, off, le)
            ELSE LegacyArrayLoop(type, count, 0, off, le, <<>>)
      [] type = 7 ->
            LegacyResult(BufferValue(LegacySubarray(off, LegacyPlus(off, count))),
                         LegacyPlus(off, count), FALSE)
      [] type = 9 -> LegacyReadInt32(off, le)
      [] type = 10 -> LegacyQuotient(LegacyReadInt32(off, le), LegacyReadInt32(off + 4, le))
      [] OTHER ->
            LegacyResult(Null, LegacyPlus(off, TotalSize(LegacyTypeSize(type), count)), FALSE)

\* The out-of-line branch puts this.offset back (line 339).
LegacyRestore(r, off) == LegacyResult(r.val, IF r.exc THEN r.off ELSE off, r.exc)

\* Lines 328-342, with this.offset = off on entry: the byte after the entry's
\* four fields.  The inline branch moves the cursor back to the value field
\* and returns what readValueByType returns, the cursor where that left it.
LegacyReadTagValue(type, count, valueOffset, tStart, le, off) ==
    IF TotalSize(LegacyTypeSize(type), count) <= 4
    THEN LegacyReadValueByType(type, count, off - 4, le)
    ELSE LegacyRestore(LegacyReadValueByType(type, count, tStart + valueOffset, le), off)

\* Lines 393-465: the table of getTagInfo, tag ID -> name.
LegacyTagNames ==
    (271 :> "Make") @@ (272 :> "Model") @@ (274 :> "Orientation") @@
    (282 :> "XResolution") @@ (283 :> "YResolution") @@ (296 :> "ResolutionUnit") @@
    (305 :> "Software") @@ (306 :> "DateTime") @@ (315 :> "Artist") @@
    (318 :> "WhitePoint") @@ (319 :> "PrimaryChromaticities") @@
    (529 :> "YCbCrCoefficients") @@ (531 :> "YCbCrPositioning") @@
    (532 :> "ReferenceBlackWhite") @@ (33432 :> "Copyright") @@
    (34665 :> "ExifIFDPointer") @@ (34853 :> "GPSIFDPointer") @@
    (33434 :> "ExposureTime") @@ (33437 :> "FNumber") @@ (34855 :> "ISO") @@
    (36864 :> "ExifVersion") @@ (36867 :> "DateTimeOriginal") @@
    (36868 :> "DateTimeDigitized") @@ (37121 :> "ComponentsConfiguration") @@
    (37122 :> "CompressedBitsPerPixel") @@ (37377 :> "ShutterSpeedValue") @@
    (37378 :> "ApertureValue") @@ (37379 :> "BrightnessValue") @@
    (37380 :> "ExposureBiasValue") @@ (37381 :> "MaxApertureValue") @@
    (37382 :> "SubjectDistance") @@ (37383 :> "MeteringMode") @@
    (37384 :> "LightSource") @@ (37385 :> "Flash") @@ (37386 :> "FocalLength") @@
    (37510 :> "UserComment") @@ (40960 :> "FlashpixVersion") @@
    (40961 :> "ColorSpace") @@ (40962 :> "ExifImageWidth") @@
    (40963 :> "ExifImageHeight") @@ (40965 :> "InteroperabilityIFDPointer") @@
    (41486 :> "FocalPlaneXResolution") @@ (41487 :> "FocalPlaneYResolution") @@
    (41488 :> "FocalPlaneResolutionUnit") @@ (41493 :> "ExposureIndex") @@
    (41495 :> "SensingMethod") @@ (41728 :> "FileSource") @@ (41729 :> "SceneType") @@
    (41730 :> "CFAPattern") @@ (41985 :> "CustomRendered") @@
    (41986 :> "ExposureMode") @@ (41987 :> "WhiteBalance") @@
    (41988 :> "DigitalZoomRatio") @@ (41989 :> "FocalLengthIn35mmFormat") @@
    (41990 :> "SceneCaptureType") @@ (41991 :> "GainControl") @@
    (41992 :> "Contrast") @@ (41993 :> "Saturation") @@ (41994 :> "Sharpness") @@
    (41996 :> "SubjectDistanceRange") @@ (42016 :> "ImageUniqueID") @@
    (42032 :> "CameraOwnerName") @@ (42033 :> "BodySerialNumber") @@
    (42034 :> "LensSpecification") @@ (42035 :> "LensMake") @@
    (42036 :> "LensModel") @@ (42037 :> "LensSerialNumber")

\* Lines 467-503: the table of getGPSTagInfo.
LegacyGPSTagNames ==
    (0 :> "GPSVersionID") @@ (1 :> "GPSLatitudeRef") @@ (2 :> "GPSLatitude") @@
    (3 :> "GPSLongitudeRef") @@ (4 :> "GPSLongitude") @@ (5 :> "GPSAltitudeRef") @@
    (6 :> "GPSAltitude") @@ (7 :> "GPSTimeStamp") @@ (8 :> "GPSSatellites") @@
    (9 :> "GPSStatus") @@ (10 :> "GPSMeasureMode") @@ (11 :> "GPSDOP") @@
    (12 :> "GPSSpeedRef") @@ (13 :> "GPSSpeed") @@ (14 :> "GPSTrackRef") @@
    (15 :> "GPSTrack") @@ (16 :> "GPSImgDirectionRef") @@ (17 :> "GPSImgDirection") @@
    (18 :> "GPSMapDatum") @@ (19 :> "GPSDestLatitudeRef") @@ (20 :> "GPSDestLatitude") @@
    (21 :> "GPSDestLongitudeRef") @@ (22 :> "GPSDestLongitude") @@
    (23 :> "GPSDestBearingRef") @@ (24 :> "GPSDestBearing") @@
    (25 :> "GPSDestDistanceRef") @@ (26 :> "GPSDestDistance") @@
    (27 :> "GPSProcessingMethod") @@ (28 :> "GPSAreaInformation") @@
    (29 :> "GPSDateStamp") @@ (30 :> "GPSDifferential")

\* tags[name] = value on the object t = [tags, keys].
LegacyAssign(t, name, value) ==
    [tags |-> (name :> value) @@ t.tags,
     keys |-> IF name \in DOMAIN t.tags THEN t.keys ELSE Append(t.keys, name)]

\* The four reads that open a loop pass (lines 277-280, 310-313) at co.
LegacyFields(co, tag, type, count, valueOffset) ==
    [exc |-> tag.exc \/ type.exc \/ count.exc \/ valueOffset.exc,
     start |-> co, tag |-> tag.val.n, type |-> type.val.n, count |-> count.val.n,
     valueOffset |-> valueOffset.val.n, after |-> co + 12]

LegacyDecode(co, le) ==
    LegacyFields(co, LegacyReadUint16(co, le), LegacyReadUint16(co + 2, le),
                 LegacyReadUint32(co + 4, le), LegacyReadUint32(co + 8, le))

\* Lines 302-326: parseGPSData(tags, gpsOffset, littleEndian), called with
\* this.offset = saved.  Whatever happens inside, the cursor is put back to
\* saved, so the call is known by the tags it leaves.
RECURSIVE LegacyGpsLoop(_, _, _, _, _, _, _)
LegacyGpsStore(t, gpsOffset, saved, le, entryCount, i, e, r) ==
    IF r.exc THEN t
    ELSE LegacyGpsLoop(LegacyAssign(t, LegacyGPSTagNames[e.tag], r.val),
                       gpsOffset, saved, le, entryCount, i + 1, r.off)

LegacyGpsEntry(t, gpsOffset, saved, le, entryCount, i, e) ==
    IF e.exc THEN t
    ELSE IF e.tag \notin DOMAIN LegacyGPSTagNames
    THEN LegacyGpsLoop(t, gpsOffset, saved, le, entryCount, i + 1, e.after)
    ELSE LegacyGpsStore(t, gpsOffset, saved, le, entryCount, i, e,
                        LegacyReadTagValue(e.type, e.count, e.valueOffset,
                                           gpsOffset - e.after + saved, le, e.after))

LegacyGpsLoop(t, gpsOffset, saved, le, entryCount, i, off) ==
    IF i >= entryCount THEN t
    ELSE LegacyGpsEntry(t, gpsOffset, saved, le, entryCount, i, LegacyDecode(off, le))

LegacyGpsFrom(t, gpsOffset, saved, le, entryCount) ==
    IF entryCount.exc THEN t
    ELSE LegacyGpsLoop(t, gpsOffset, saved, le, entryCount.val.n, 0, entryCount.off)

\* value is the number read for tag 0x8825; a fractional gpsOffset makes the
\* first read raise RangeError, which parseGPSData catches.
LegacyParseGPSData(t, value, saved, le) ==
    IF value.d # 1 THEN t
    ELSE LegacyGpsFrom(t, tiffStart + value.n, saved, le,
                       LegacyReadUint16(tiffStart + value.n, le))

\* Lines 505-522: parseAlternativeFormats().
PngSignature == <<137, 80, 78, 71, 13, 10, 26, 10>>

LegacyParseAlternativeFormats ==
    IF LegacySubarray(0, 2) \in {<<73, 73>>, <<77, 77>>}
    THEN [tags |-> ("FileType" :> Str("TIFF")), keys |-> <<"FileType">>]
    ELSE IF LegacySubarray(0, 8) = PngSignature
    THEN [tags |-> ("FileType" :> Str("PNG")), keys |-> <<"FileType">>]
    ELSE [tags |-> <<>>, keys |-> <<>>]

\* What no step of the legacy parser touches.
LegacyIdle == <<buffer, propagated, req, storedBy, visits, fixture, libVars>>

\* The catch of parse() (lines 265-267): the error is logged and tags returned.
LegacyCatch ==
    /\ pc' = "done"
    /\ stack' = <<>>

\* Lines 210-219: the JPEG test.
LegacyStart ==
    /\ pc = "legacy-start"
    /\ IF Len(buffer) >= 2 /\ buffer[1] = 255 /\ buffer[2] = 216
       THEN /\ pc' = "legacy-scan"
            /\ currentOffset' = 2
            /\ UNCHANGED <<tags, keys>>
       ELSE /\ pc' = "done"
            /\ tags' = LegacyParseAlternativeFormats.tags
            /\ keys' = LegacyParseAlternativeFormats.keys
            /\ UNCHANGED currentOffset
    /\ UNCHANGED <<foundExif, tiffStart, littleEndian, stack, lastEntry>>
    /\ UNCHANGED LegacyIdle

\* Lines 223-236 for an APP1 marker at currentOffset.
LegacyScanApp1(segmentLength, exifHeader) ==
    IF segmentLength.exc THEN LegacyCatch /\ UNCHANGED <<currentOffset, foundExif>>
    ELSE IF exifHeader.val.s = <<69, 120, 105, 102>>
    THEN /\ currentOffset' = exifHeader.off + 2
         /\ foundExif' = TRUE
         /\ pc' = "legacy-header"
         /\ UNCHANGED stack
    ELSE /\ currentOffset' = exifHeader.off + segmentLength.val.n - 6
         /\ UNCHANGED <<pc, stack, foundExif>>

\* One test of the while condition and one pass through the loop (lines
\* 222-239), or, the loop left without a signature, the return of line 243.
LegacyScan ==
    /\ pc = "legacy-scan"
    /\ IF ~(currentOffset < Len(buffer) - 1)
       THEN pc' = "done" /\ UNCHANGED <<currentOffset, foundExif, stack>>
       ELSE IF buffer[currentOffset + 1] = 255 /\ buffer[currentOffset + 2] = 225
       THEN LegacyScanApp1(LegacyReadUint16(currentOffset + 2, FALSE),
                           LegacyReadString(currentOffset + 4, 4))
       ELSE /\ currentOffset' = currentOffset + 1
            /\ UNCHANGED <<pc, foundExif, stack>>
    /\ UNCHANGED <<tiffStart, littleEndian, tags, keys, lastEntry>>
    /\ UNCHANGED LegacyIdle

\* A new activation of parseIFD; RangeError when the engine's stack is full.
LegacyCall(stk) ==
    IF Len(stk) >= MaxStack THEN LegacyCatch
    ELSE /\ pc' = "legacy-ifd"
         /\ stack' = Append(stk, [stage |-> "enter", start |-> 0, entryCount |-> 0, i |-> 0])

\* Lines 247-263: the TIFF header, then parseIFD at tiffStart + ifdOffset.
LegacyHeaderWith(byteOrder, le, magic, ifdOffset) ==
    /\ littleEndian' = le
    /\ IF byteOrder.val.s \notin {<<73, 73>>, <<77, 77>>}
       THEN pc' = "done" /\ UNCHANGED <<currentOffset, stack>>
       ELSE IF magic.exc THEN LegacyCatch /\ UNCHANGED currentOffset
       ELSE IF magic.val.n # 42 THEN pc' = "done" /\ UNCHANGED <<currentOffset, stack>>
       ELSE IF ifdOffset.exc THEN LegacyCatch /\ UNCHANGED currentOffset
       ELSE /\ currentOffset' = currentOffset + ifdOffset.val.n
            /\ LegacyCall(stack)

LegacyHeader ==
    /\ pc = "legacy-header"
    /\ tiffStart' = currentOffset
    /\ LegacyHeaderWith(LegacyReadString(currentOffset, 2),
                        LegacyReadString(currentOffset, 2).val.s = <<73, 73>>,
                        LegacyReadUint16(currentOffset + 2,
                                         LegacyReadString(currentOffset, 2).val.s = <<73, 73>>),
                        LegacyReadUint32(currentOffset + 4,
                                         LegacyReadString(currentOffset, 2).val.s = <<73, 73>>))
    /\ UNCHANGED <<foundExif, tags, keys, lastEntry>>
    /\ UNCHANGED LegacyIdle

\* Line 274: the entry count.
LegacyEnterWith(entryCount) ==
    IF entryCount.exc THEN LegacyCatch /\ UNCHANGED currentOffset
    ELSE /\ pc' = "legacy-ifd"
         /\ currentOffset' = entryCount.off
         /\ stack' = SetTop([stage |-> "entries", start |-> currentOffset,
                             entryCount |-> entryCount.val.n, i |-> 0])

LegacyEnter ==
    /\ pc = "legacy-ifd"
    /\ Top.stage = "enter"
    /\ LegacyEnterWith(LegacyReadUint16(currentOffset, littleEndian))
    /\ lastEntry' = NoEntry
    /\ UNCHANGED <<foundExif, tiffStart, littleEndian, tags, keys>>
    /\ UNCHANGED LegacyIdle

\* Lines 285-291: the value is stored and, for a numeric GPS pointer, the GPS
\* directory is read.
LegacyStored(e, r) ==
    IF e.tag = 34853 /\ typeof(r.val) = "number"
    THEN LegacyParseGPSData(LegacyAssign([tags |-> tags, keys |-> keys],
                                         LegacyTagNames[e.tag], r.val),
                            r.val, r.off, littleEndian)
    ELSE LegacyAssign([tags |-> tags, keys |-> keys], LegacyTagNames[e.tag], r.val)

\* Lines 282-292 for the fields e of an entry the table knows; r is what
\* readTagValue returned.
LegacyKnownEntry(e, r) ==
    IF r.exc THEN LegacyCatch /\ lastEntry' = NoEntry /\ UNCHANGED <<currentOffset, tags, keys>>
    ELSE /\ currentOffset' = r.off
         /\ tags' = LegacyStored(e, r).tags
         /\ keys' = LegacyStored(e, r).keys
         /\ stack' = SetTop([Top EXCEPT !.i = Top.i + 1])
         /\ lastEntry' = [valid |-> TRUE, start |-> e.start, directoryStart |-> Top.start,
                          i |-> Top.i, tag |-> e.tag, type |-> e.type, count |-> e.count,
                          known |-> TRUE,
                          inline |-> TotalSize(LegacyTypeSize(e.type), e.count) <= 4,
                          val |-> r.val]
         /\ UNCHANGED pc

\* Lines 277-293 for the fields e.
LegacyEntryWith(e) ==
    IF e.exc THEN LegacyCatch /\ lastEntry' = NoEntry /\ UNCHANGED <<currentOffset, tags, keys>>
    ELSE IF e.tag \in DOMAIN LegacyTagNames
    THEN LegacyKnownEntry(e, LegacyReadTagValue(e.type, e.count, e.valueOffset, tiffStart,
                                                littleEndian, e.after))
    ELSE /\ currentOffset' = e.after
         /\ stack' = SetTop([Top EXCEPT !.i = Top.i + 1])
         /\ lastEntry' = [valid |-> TRUE, start |-> e.start, directoryStart |-> Top.start,
                          i |-> Top.i, tag |-> e.tag, type |-> e.type, count |-> e.count,
                          known |-> FALSE,
                          inline |-> TotalSize(LegacyTypeSize(e.type), e.count) <= 4,
                          val |-> Null]
         /\ UNCHANGED <<pc, tags, keys>>

\* One pass through the loop of parseIFD (lines 276-293).
LegacyEntry ==
    /\ pc = "legacy-ifd"
    /\ Top.stage = "entries"
    /\ Top.i < Top.entryCount
    /\ LegacyEntryWith(LegacyDecode(currentOffset, littleEndian))
    /\ UNCHANGED <<foundExif, tiffStart, littleEndian>>
    /\ UNCHANGED LegacyIdle

\* Lines 295-299: the next-IFD pointer.  parseIFD does nothing after the call
\* of line 298, so when one activation returns they all do.
LegacyNextWith(nextIFDOffset) ==
    IF nextIFDOffset.exc THEN LegacyCatch /\ UNCHANGED currentOffset
    ELSE IF nextIFDOffset.val.n # 0
    THEN /\ currentOffset' = tiffStart + nextIFDOffset.val.n
         /\ LegacyCall(stack)
    ELSE /\ currentOffset' = nextIFDOffset.off
         /\ pc' = "done"
         /\ stack' = <<>>

LegacyNext ==
    /\ pc = "legacy-ifd"
    /\ Top.stage = "entries"
    /\ Top.i >= Top.entryCount
    /\ LegacyNextWith(LegacyReadUint32(currentOffset, littleEndian))
    /\ lastEntry' = NoEntry
    /\ UNCHANGED <<foundExif, tiffStart, littleEndian, tags, keys>>
    /\ UNCHANGED LegacyIdle

\* The files the legacy parser is run on: JPEG files with an Exif segment
\* (every window, byte order and chaining, whole or with a damaged header or
\* cut short, behind other segments or not), a bare TIFF file and a PNG file.
LegacyFixtures ==
    {Fx("parse", <<>>, TRUE, le, a, DirB, nextA, "none", "ok", 0) :
        le \in BOOLEAN, a \in Windows, nextA \in {"none", "A", "B"}}
    \cup
    {Fx("parse", segs, app1, FALSE, Window(2, 1), <<>>, "none", "none", hdr, cut) :
        segs \in SegWindows, app1 \in BOOLEAN, hdr \in {"ok", "bom", "magic"},
        cut \in {0, 3, 9, 14, 20}}
    \cup
    {Fx(entry, <<>>, TRUE, le, Window(2, 1), <<>>, "none", "none", "ok", 0) :
        entry \in {"file", "png"}, le \in BOOLEAN}

LegacyBufferOf(fx) ==
    CASE fx.entry = "file" -> TiffBytes(fx)
      [] fx.entry = "png" -> PngSignature \o TiffBytes(fx)
      [] OTHER -> BufferOf(fx)

\* new ExifParser(buffer).parse() from its first line.
InitLegacy ==
    \E fx \in LegacyFixtures :
        /\ fixture = fx
        /\ buffer = LegacyBufferOf(fx)
        /\ pc = "legacy-start"
        /\ currentOffset = 0
        /\ foundExif = FALSE
        /\ tiffStart = 0
        /\ littleEndian = FALSE
        /\ tags = <<>>
        /\ keys = <<>>
        /\ stack = <<>>
        /\ propagated = FALSE
        /\ req = {}
        /\ storedBy = <<>>
        /\ lastEntry = NoEntry
        /\ visits = <<>>
        /\ op = "none"
        /\ callName = <<>>
        /\ callData = <<>>
        /\ result = Null
        /\ prev = Null
        /\ NoPuzzle

NextLegacy ==
    \/ LegacyStart
    \/ LegacyScan
    \/ LegacyHeader
    \/ LegacyEnter
    \/ LegacyEntry
    \/ LegacyNext

SpecLegacy == InitLegacy /\ [][NextLegacy]_vars

\* C26: in the legacy ExifParser, after parseIFD has handled a directory
\* entry (recognized or not, inline or out of line, any type and count) the
\* read position is exactly 12 bytes past the start of that entry, and the
\* i-th entry of a directory is read from directoryStart + 2 + 12 * i.
C26_CursorAfterEntry ==
    (pc = "legacy-ifd" /\ lastEntry.valid) =>
        /\ currentOffset = lastEntry.start + 12
        /\ lastEntry.start = lastEntry.directoryStart + 2 + 12 * lastEntry.i

\* ---- C27

\* The names of a list of EXIF_PRIVACY_CATEGORIES.
NamesOf(list) == {list[k] : k \in DOMAIN list}

\* C27: every name listed in EXIF_PRIVACY_CATEGORIES.safe is classified
\* 'safe' by categorizeExifTag, every name listed in .medium 'medium' and
\* every name listed in .high 'high'.
C27_AllowListsConsistent ==
    op = "categorize" =>
        /\ callName \in NamesOf(EXIF_PRIVACY_CATEGORIES.safe) => result = "safe"
        /\ callName \in NamesOf(EXIF_PRIVACY_CATEGORIES.medium) => result = "medium"
        /\ callName \in NamesOf(EXIF_PRIVACY_CATEGORIES.high) => result = "high"

\* ---- C28

\* C28: the records processExifData returns have pairwise distinct tag names,
\* and there are as many of them as entries of the input that pass the filter.
C28_DistinctTagsAndCount ==
    (op = "process" /\ result.ok) =>
        /\ \A i, j \in DOMAIN result.list :
              i # j => result.list[i].tag # result.list[j].tag
        /\ Len(result.list) = Len(cleanData(callData))

\* ---- C29

\* parse() from its first line on files with every sequence of segments
\* before the Exif segment or the end of the file; the loop of lines 78-110
\* is straight-line code of one call, so a pass that can be made is made.
ScanRuns ==
    {Fx("parse", segs, app1, FALSE, Window(2, 1), <<>>, "none", "none", "ok", cut) :
        segs \in SegWindows, app1 \in BOOLEAN, cut \in {0, 2}}
    \cup ShortSegmentFixtures

InitScan == \E fx \in ScanRuns : InitOf(fx)

\* parse() up to the end of the scan.
NextScan ==
    \/ ParseStart
    \/ ScanStep

SpecScan == InitScan /\ [][NextScan]_vars /\ WF_vars(ScanStep)

\* A pass of the scan loop that stays in the loop moves the cursor forward
\* by at least 2.
ScanAdvances ==
    (pc = "scan" /\ pc' = "scan") => currentOffset' >= currentOffset + 2

\* C29: the marker scan of RobustExifParser.parse() terminates for every
\* buffer: each pass of the loop leaves the loop or increases currentOffset
\* by at least 2, a segment length of 0 and an APP1 length below 14 included,
\* and the scan is left in the end.
C29_ScanTerminates ==
    /\ [][ScanAdvances]_vars
    /\ (pc = "scan") ~> (pc # "scan")

\* The scan has passed an APP1 segment of declared length 2 at offset 2 and a
\* segment of declared length 0 at offset 6, and is still in the loop.
C29_Witness ==
    /\ pc = "scan"
    /\ currentOffset = 8
    /\ Len(buffer) >= 10
    /\ SubSeq(buffer, 3, 10) = <<255, 225, 0, 2, 255, 226, 0, 0>>

\* ---------------------------------------------------------------- ImagePuzzle
\* The ImagePuzzle component of src/unnamed/part_007: its puzzleState,
\* gridSize and gameStarted states and the handlers that set them.  A piece
\* is [id, currentPosition, correctPosition]; its imageData plays no part.
\* The handlers run when the page offers them: the difficulty select and the
\* Create button while there is no puzzle (line 328), the Shuffle button
\* while the puzzle is not complete (line 450), the pieces and the Reset
\* button while there is a puzzle (line 409).  The image loads and the 2d
\* contexts of the canvases are there.

\* The difficulty levels the select offers (lines 362-381).
GridSizes == {3, 4, 5}

\* Math.random() is drawn as draw / RandomScale; one shuffle sees one value.
RandomScale == 32
RandomDraws == {0, 8, 16, 24, 31}

\* Moves counted in one game, and the piece ids the player drags or taps.
MaxMoves == 3
MaxPiece == 2

\* [shuffled[i], shuffled[j]] = [shuffled[j], shuffled[i]], indices from 0
SwapAt(shuffled, i, j) ==
    [shuffled EXCEPT ![i + 1] = shuffled[j + 1], ![j + 1] = shuffled[i + 1]]

\* part_000 lines 113-116: for (i = length - 1; i > 0; i--)
\*                            { j = Math.floor(Math.random() * (i + 1)); swap }
RECURSIVE ShuffleLoop(_, _, _)
ShuffleLoop(shuffled, i, draw) ==
    IF i <= 0 THEN shuffled
    ELSE ShuffleLoop(SwapAt(shuffled, i, (draw * (i + 1)) \div RandomScale), i - 1, draw)

\* part_000 lines 111-118.
shuffleArray(array, draw) == ShuffleLoop(array, Len(array) - 1, draw)

\* [...Array(n).keys()]
KeysOf(n) == [k \in 1..n |-> k - 1]

\* Lines 123-151: the pieces in row-major order, pieceIndex = row * gridSize + col.
NewPieces(size) ==
    [k \in 1..(size * size) |->
        [id |-> k - 1, currentPosition |-> k - 1, correctPosition |-> k - 1]]

\* pieces.map((piece, index) => ({...piece, currentPosition: shuffledPositions[index]}))
Reposition(pieces, shuffledPositions) ==
    [index \in DOMAIN pieces |->
        [pieces[index] EXCEPT !.currentPosition = shuffledPositions[index]]]

\* Lines 207-209.
checkCompletion(pieces) ==
    \A index \in DOMAIN pieces :
        pieces[index].currentPosition = pieces[index].correctPosition

\* onValueChange of the difficulty select (line 357).
SetGridSize ==
    /\ puzzleState = Null
    /\ \E value \in GridSizes : gridSize' = value
    /\ UNCHANGED <<puzzleState, gameStarted, parserState>>
    /\ UNCHANGED <<op, callName, callData, result, prev>>

\* Lines 99-173 for a file that loads.
CreatePuzzle ==
    /\ puzzleState = Null
    /\ \E draw \in RandomDraws :
          puzzleState' =
              [pieces |-> Reposition(NewPieces(gridSize),
                                     shuffleArray(KeysOf(gridSize * gridSize), draw)),
               isComplete |-> FALSE, moves |-> 0, timeElapsed |-> 0,
               gridSize |-> gridSize]
    /\ gameStarted' = TRUE
    /\ UNCHANGED <<gridSize, parserState>>
    /\ UNCHANGED <<op, callName, callData, result, prev>>

\* Lines 190-205.
ShufflePieces ==
    /\ puzzleState # Null
    /\ ~puzzleState.isComplete
    /\ puzzleState.moves < MaxMoves
    /\ \E draw \in RandomDraws :
          puzzleState' =
              [puzzleState EXCEPT
                  !.pieces = Reposition(puzzleState.pieces,
                                        shuffleArray(KeysOf(Len(puzzleState.pieces)), draw)),
                  !.moves = puzzleState.moves + 1,
                  !.isComplete = FALSE]
    /\ UNCHANGED <<gridSize, gameStarted, parserState>>
    /\ UNCHANGED <<op, callName, callData, result, prev>>

\* The pieces after lines 253-258.
Swapped(pieces, piece1Index, piece2Index) ==
    [pieces EXCEPT
        ![piece1Index + 1].currentPosition = pieces[piece2Index + 1].currentPosition,
        ![piece2Index + 1].currentPosition = pieces[piece1Index + 1].currentPosition]

\* Lines 250-272: swapPieces(piece1Index, piece2Index), called by handleDrop
\* and handleTouchStart with the ids of two pieces.
SwapPieces ==
    /\ puzzleState # Null
    /\ puzzleState.moves < MaxMoves
    /\ \E piece1Index, piece2Index \in 0..MaxPiece :
          /\ puzzleState' =
                [puzzleState EXCEPT
                    !.pieces = Swapped(puzzleState.pieces, piece1Index, piece2Index),
                    !.moves = puzzleState.moves + 1,
                    !.isComplete =
                        checkCompletion(Swapped(puzzleState.pieces, piece1Index,
                                                piece2Index))]
          /\ gameStarted' =
                IF checkCompletion(Swapped(puzzleState.pieces, piece1Index, piece2Index))
                THEN FALSE ELSE gameStarted
    /\ UNCHANGED <<gridSize, parserState>>
    /\ UNCHANGED <<op, callName, callData, result, prev>>

\* Lines 181-188.
ResetGame ==
    /\ puzzleState # Null
    /\ puzzleState' = Null
    /\ gameStarted' = FALSE
    /\ UNCHANGED <<gridSize, parserState>>
    /\ UNCHANGED <<op, callName, callData, result, prev>>

\* The component as it is mounted, with a file selected.
InitPuzzle ==
    /\ ParserIdle
    /\ op = "none"
    /\ callName = <<>>
    /\ callData = <<>>
    /\ result = Null
    /\ prev = Null
    /\ NoPuzzle

NextPuzzle ==
    \/ SetGridSize
    \/ CreatePuzzle
    \/ ShufflePieces
    \/ SwapPieces
    \/ ResetGame

SpecPuzzle == InitPuzzle /\ [][NextPuzzle]_vars

\* ---- C30

\* The currentPosition values of the pieces are 0 .. n-1, each once.
PositionsArePermutation(pieces) ==
    /\ \A index \in DOMAIN pieces : pieces[index].currentPosition \in 0..(Len(pieces) - 1)
    /\ \A a, b \in DOMAIN pieces :
          a # b => pieces[a].currentPosition # pieces[b].currentPosition

\* C30: after any sequence of createPuzzle, shufflePieces and swapPieces the
\* pieces' currentPosition values form a permutation of 0..n-1 and
\* puzzleState.isComplete is true exactly when every piece has
\* currentPosition = correctPosition.
C30_PuzzleConsistent ==
    puzzleState # Null =>
        /\ PositionsArePermutation(puzzleState.pieces)
        /\ puzzleState.isComplete <=> checkCompletion(puzzleState.pieces)

====
